---- MODULE Spec2Model ----
(***************************************************************************)
(* PrimeLabs clinic/lab management application.                            *)
(*                                                                         *)
(* The model covers the commission computation of the medical-record form *)
(* (app.py, MedicalRecordForm.render), the test categorizer                *)
(* (app.py, get_test_category), the commission-rate data model             *)
(* (data_models.py) and the authentication / approval resolution           *)
(* (user_authentication.py, PrimeLabsUI.render).                           *)
(*                                                                         *)
(* Python strings that the code inspects character by character (test     *)
(* names) are sequences of one-character strings.  Commission rates are    *)
(* Python floats; a rate r is held as the integer r * RateScale, so that   *)
(* int(...) truncation is a real operation of the model.                   *)
(***************************************************************************)
EXTENDS Integers, Sequences, FiniteSets, TLC

None == "None"

Max(a, b) == IF a >= b THEN a ELSE b

\* Python int(x) for the rational x = num / den (den > 0): truncation toward zero.
PyInt(num, den) == IF num >= 0 THEN num \div den ELSE -((-num) \div den)

(***************************************************************************)
(* Character strings                                                       *)
(***************************************************************************)
LowerToUpper ==
    ("a" :> "A") @@ ("b" :> "B") @@ ("c" :> "C") @@ ("d" :> "D") @@ ("e" :> "E") @@
    ("f" :> "F") @@ ("g" :> "G") @@ ("h" :> "H") @@ ("i" :> "I") @@ ("j" :> "J") @@
    ("k" :> "K") @@ ("l" :> "L") @@ ("m" :> "M") @@ ("n" :> "N") @@ ("o" :> "O") @@
    ("p" :> "P") @@ ("q" :> "Q") @@ ("r" :> "R") @@ ("s" :> "S") @@ ("t" :> "T") @@
    ("u" :> "U") @@ ("v" :> "V") @@ ("w" :> "W") @@ ("x" :> "X") @@ ("y" :> "Y") @@
    ("z" :> "Z")

\* str.upper()
Upper(s) == [i \in 1..Len(s) |-> IF s[i] \in DOMAIN LowerToUpper THEN LowerToUpper[s[i]] ELSE s[i]]

\* str.startswith(p)
StartsWith(s, p) == Len(s) >= Len(p) /\ SubSeq(s, 1, Len(p)) = p

\* p in s
Contains(s, p) == \E i \in 1..(Len(s) - Len(p) + 1) : SubSeq(s, i, i + Len(p) - 1) = p

S_CT_SCAN_DASH  == <<"C","T","-","S","C","A","N">>
S_CT_SCAN_SPACE == <<"C","T"," ","S","C","A","N">>
S_X_RAY         == <<"X","-","R","A","Y">>
S_XRAY          == <<"X","R","A","Y">>
S_USG           == <<"U","S","G">>
S_ULTRASOUND    == <<"U","L","T","R","A","S","O","U","N","D">>
S_SONOGRAPHY    == <<"S","O","N","O","G","R","A","P","H","Y">>
S_ECG           == <<"E","C","G">>
S_EKG           == <<"E","K","G">>

(***************************************************************************)
(* data_models.py: categories, commission types, default rates             *)
(***************************************************************************)
USG_750  == "USG-750"
USG_1200 == "USG-1200"
XRAY_350 == "X-RAY-350"
XRAY_450 == "X-RAY-450"
XRAY_650 == "X-RAY-650"
ECG      == "ECG"
CT_SCAN  == "CT-SCAN"
PATH     == "PATH"

TestCategory == {USG_750, USG_1200, XRAY_350, XRAY_450, XRAY_650, ECG, CT_SCAN, PATH}

PERCENTAGE == "Percentage"
FIXED      == "Fixed"
CommissionType == {PERCENTAGE, FIXED}

\* Rates are held as rate * RateScale (RateScale = 2: halves of a rupee / of a percent).
RateScale == 2

\* The whole-number rate n as held by the model.
Rate(n) == n * RateScale

DEFAULT_COMMISSION_RATES ==
    (USG_750  :> [type |-> FIXED,      rate |-> Rate(250)]) @@
    (USG_1200 :> [type |-> FIXED,      rate |-> Rate(300)]) @@
    (XRAY_350 :> [type |-> FIXED,      rate |-> Rate(100)]) @@
    (XRAY_450 :> [type |-> FIXED,      rate |-> Rate(100)]) @@
    (XRAY_650 :> [type |-> FIXED,      rate |-> Rate(150)]) @@
    (ECG      :> [type |-> FIXED,      rate |-> Rate(100)]) @@
    (CT_SCAN  :> [type |-> PERCENTAGE, rate |-> Rate(40)])  @@
    (PATH     :> [type |-> PERCENTAGE, rate |-> Rate(50)])

\* Variant of DefaultRateFor that ignores the table: always the .get() default.
DefaultRateIgnoringTable(category) == [type |-> PERCENTAGE, rate |-> 0]

\* DEFAULT_COMMISSION_RATES.get(category, {"type": PERCENTAGE, "rate": 0})
DefaultRateFor(category) ==
    IF category \in DOMAIN DEFAULT_COMMISSION_RATES
    THEN DEFAULT_COMMISSION_RATES[category]
    ELSE [type |-> PERCENTAGE, rate |-> 0]

\* TestCommissionRate.calculate_commission, for an entry cr = [category, commission_type, rate]
calculate_commission(cr, test_price) ==
    IF cr.commission_type = PERCENTAGE
    THEN PyInt(test_price * cr.rate, 100 * RateScale)
    ELSE PyInt(cr.rate, RateScale)

\* Index of the first entry of commission_rates for category, 0 when there is none.
FirstEntry(commission_rates, category) ==
    IF \E i \in 1..Len(commission_rates) : commission_rates[i].category = category
    THEN CHOOSE i \in 1..Len(commission_rates) :
            /\ commission_rates[i].category = category
            /\ \A j \in 1..(i - 1) : commission_rates[j].category # category
    ELSE 0

\* RegisteredDoctor.get_commission_for_category: <<commission, type, rate>>
get_commission_for_category(commission_rates, category, test_price) ==
    LET i == FirstEntry(commission_rates, category) IN
    IF i # 0
    THEN <<calculate_commission(commission_rates[i], test_price),
           commission_rates[i].commission_type, commission_rates[i].rate>>
    ELSE LET default == DefaultRateFor(category)
             commission == IF default.type = PERCENTAGE
                           THEN PyInt(test_price * default.rate, 100 * RateScale)
                           ELSE PyInt(default.rate, RateScale)
         IN <<commission, default.type, default.rate>>

(***************************************************************************)
(* app.py: get_test_category                                               *)
(***************************************************************************)
\* Variant of get_test_category that matches the name as written (no upper()) and
\* tries the USG rule before the X-RAY rule.
get_test_category_reordered(test_name, test_price) ==
    IF StartsWith(test_name, S_CT_SCAN_DASH) \/ StartsWith(test_name, S_CT_SCAN_SPACE)
    THEN CT_SCAN
    ELSE IF Contains(test_name, S_USG) \/ Contains(test_name, S_ULTRASOUND)
            \/ Contains(test_name, S_SONOGRAPHY)
    THEN (IF test_price <= 750 THEN USG_750 ELSE USG_1200)
    ELSE IF StartsWith(test_name, S_X_RAY) \/ StartsWith(test_name, S_XRAY)
    THEN (IF test_price <= 350 THEN XRAY_350
          ELSE IF test_price <= 450 THEN XRAY_450
          ELSE XRAY_650)
    ELSE IF Contains(test_name, S_ECG) \/ Contains(test_name, S_EKG)
    THEN ECG
    ELSE PATH

get_test_category(test_name, test_price) ==
    LET test_name_upper == Upper(test_name) IN
    IF StartsWith(test_name_upper, S_CT_SCAN_DASH) \/ StartsWith(test_name_upper, S_CT_SCAN_SPACE)
    THEN CT_SCAN
    ELSE IF StartsWith(test_name_upper, S_X_RAY) \/ StartsWith(test_name_upper, S_XRAY)
    THEN (IF test_price <= 350 THEN XRAY_350
          ELSE IF test_price <= 450 THEN XRAY_450
          ELSE XRAY_650)
    ELSE IF Contains(test_name_upper, S_USG) \/ Contains(test_name_upper, S_ULTRASOUND)
            \/ Contains(test_name_upper, S_SONOGRAPHY)
    THEN (IF test_price <= 750 THEN USG_750 ELSE USG_1200)
    ELSE IF Contains(test_name_upper, S_ECG) \/ Contains(test_name_upper, S_EKG)
    THEN ECG
    ELSE PATH

(***************************************************************************)
(* app.py: the pricing catalog of the record form (a subset of TEST_PRICES) *)
(***************************************************************************)
N_USG_WHOLE_ABDOMEN == <<"U","S","G"," ","W","H","O","L","E"," ","A","B","D","O","M","E","N">>
N_USG_THIGH == <<"U","S","G"," ","T","H","I","G","H">>
N_XRAY_CHEST_PA == <<"X","-","R","A","Y"," ","C","H","E","S","T","-","P","A">>
N_XRAY_ORBIT_AP == <<"X","-","R","A","Y"," ","O","R","B","I","T","-","A","P">>
N_XRAY_MCU == <<"X","-","R","A","Y"," ","M","C","U">>
N_ECG == <<"E","C","G">>
N_CT_SCAN_PNS == <<"C","T","-","S","C","A","N"," ","P","N","S">>
N_CBC == <<"C","B","C">>

TEST_PRICES ==
    (N_USG_WHOLE_ABDOMEN :> 750) @@
    (N_USG_THIGH :> 1200) @@
    (N_XRAY_CHEST_PA :> 350) @@
    (N_XRAY_ORBIT_AP :> 450) @@
    (N_XRAY_MCU :> 1000) @@
    (N_ECG :> 300) @@
    (N_CT_SCAN_PNS :> 3500) @@
    (N_CBC :> 250)

(***************************************************************************)
(* data_models.py: roles and authorization statuses                        *)
(***************************************************************************)
ADMIN      == "Admin"
MANAGER    == "Manager"
SUPERVISOR == "Supervisor"
DOCTOR     == "Doctor"
EMPLOYEE   == "Employee"
UserRole   == {ADMIN, MANAGER, SUPERVISOR, DOCTOR, EMPLOYEE}

PENDING_APPROVAL == "Pending Approval"
APPROVED         == "Approved"
REJECTED         == "Rejected"
UNAUTHENTICATED  == "Unauthenticated"
UNAUTHORIZED     == "Unauthorized"
OWNER            == "Owner"
NON_OWNER        == "Non-Owner"
AuthorizationStatus ==
    {PENDING_APPROVAL, APPROVED, REJECTED, UNAUTHENTICATED, UNAUTHORIZED, OWNER, NON_OWNER}

(***************************************************************************)
(* Configuration and the finite universe of the model                      *)
(***************************************************************************)
\* st.secrets["project_owner_email"]; "project_owner_email_2" is not configured.
project_owner_email   == "owner@lab"
project_owner_email_2 == None

NonOwnerEmails == {"u1@lab"}
Emails   == {project_owner_email} \cup NonOwnerEmails
Sessions == {"s1", "s2"}

\* A stored profile of the "users" collection; NoDoc when the email has none.
\* NoKey stands for a document without the "status" key.
NoDoc == [doc |-> FALSE]
NoKey == "<no key>"
StatusValues == {"approved", "pending_approval", "rejected", NoKey, "active"}
Profile(status, role) == [doc |-> TRUE, status |-> status, role |-> role]

\* The credential token the provider issues to session s signing in as email;
\* NoToken is the None of st.session_state.user_token.
Token(s, email) == <<s, email>>
NoToken == <<>>

VARIABLES
    users,        \* "users" collection: email -> profile or NoDoc
    validTokens,  \* the tokens auth.verify_id_token accepts
    sess,         \* st.session_state of each browser session (the login fields)
    view,         \* what the last script run of each session resolved and showed
    doctors,      \* "registered_doctors" collection: doctor id -> document
    records,      \* the medical-records collection, in order of creation
    expenses,     \* the expenses collection, in order of creation
    form,         \* st.session_state of each session: the record form's flags
    lastSubmit,   \* what the last run of the record form's submit handler computed
    lastExpense,  \* what the last run of the expense form's submit handler did
    clock,        \* the time, in seconds since the application started
    doctorCache,  \* the entry st.cache_data keeps of get_active_doctors()
    lastWrite,    \* the last write of an admin handler: its button, its actor, its fields
    credentials,  \* the emails that have a credential at the authentication provider
    lastRegister, \* what the last call of UserAuthentication.register did
    repIn,        \* input of the referral report: the month's records
    repOut,       \* the month's totals and the report computed from repIn
    amtIn,        \* input of validate_amount: an expense amount
    amtOut,       \* what validate_amount returned for amtIn
    catIn,        \* get_test_category applied alone: its arguments
    catOut,       \*    and its result
    comIn,        \* the commission loop applied alone: tests, payments, rate table
    comOut        \*    and what it computed

authVars == <<users, validTokens, sess, view>>
formVars == <<doctors, records, expenses, form, lastSubmit, lastExpense, clock, doctorCache>>
NoWrite  == [kind |-> None]
regVars  == <<credentials, lastRegister>>
pureVars == <<catIn, catOut, comIn, comOut, repIn, repOut, amtIn, amtOut>>

(***************************************************************************)
(* utils.py / user_authentication.py                                       *)
(***************************************************************************)
\* Variant of is_project_owner in which no address is an owner's.
is_project_owner_never(email) == FALSE

\* utils.is_project_owner
is_project_owner(email) == email \in {project_owner_email, project_owner_email_2}

\* UserAuthentication._initialize_session_state
ClearedSession ==
    [authenticated |-> FALSE, user_role |-> None, user_email |-> None,
     user_name |-> None, user_token |-> NoToken, user_id |-> None]

\* UserAuthentication.verify_token_validity
verify_token_validity(se) ==
    /\ se.user_token # NoToken
    /\ se.user_token \in validTokens

\* UserAuthentication.logout
logout(se) == ClearedSession

\* UserAuthentication.check_authentication: the boolean result and the session it leaves.
check_authentication(se) ==
    IF ~verify_token_validity(se)
    THEN [ok |-> FALSE, sess |-> logout(se)]
    ELSE [ok |-> TRUE, sess |-> se]

\* db.get_docs(USER_DB_COLLECTION, filters=[("email", "==", email)])
UserDocs(email) ==
    IF email \in DOMAIN users /\ users[email].doc THEN <<users[email]>> ELSE <<>>

\* Variant of check_user_approval_status that approves every stored status but
\* "rejected".
check_user_approval_status_lenient(se, email, db_ok) ==
    IF ~verify_token_validity(se) THEN FALSE
    ELSE IF is_project_owner(email) THEN TRUE
    ELSE IF ~db_ok THEN FALSE
    ELSE LET user_docs == UserDocs(email) IN
         IF user_docs # <<>> THEN user_docs[1].status # "rejected" ELSE FALSE

\* UserAuthentication.check_user_approval_status; db_ok = FALSE: the read raises.
check_user_approval_status(se, email, db_ok) ==
    IF ~verify_token_validity(se) THEN FALSE
    ELSE IF is_project_owner(email) THEN TRUE
    ELSE IF ~db_ok THEN FALSE
    ELSE LET user_docs == UserDocs(email) IN
         IF user_docs # <<>>
         THEN LET status == IF user_docs[1].status = NoKey THEN "" ELSE user_docs[1].status
              IN status = "approved"
         ELSE FALSE

\* UserAuthentication.get_user_status
get_user_status(se, email, db_ok) ==
    IF ~verify_token_validity(se) THEN "unauthenticated"
    ELSE IF is_project_owner(email) THEN "approved"
    ELSE IF ~db_ok THEN "pending_approval"
    ELSE LET user_docs == UserDocs(email) IN
         IF user_docs # <<>>
         THEN (IF user_docs[1].status = NoKey THEN "pending_approval" ELSE user_docs[1].status)
         ELSE "pending_approval"

\* UserAuthentication.require_authorization(role); role = None: no role required.
\* The result and the session it leaves (check_authentication may log out).
require_authorization(se, role, db_ok) ==
    LET auth == check_authentication(se) IN
    IF ~auth.ok THEN [status |-> UNAUTHENTICATED, sess |-> auth.sess]
    ELSE IF ~check_user_approval_status(se, se.user_email, db_ok)
    THEN [status |-> PENDING_APPROVAL, sess |-> se]
    ELSE IF role # None /\ se.user_role # role
    THEN [status |-> UNAUTHORIZED, sess |-> se]
    ELSE [status |-> APPROVED, sess |-> se]

\* UserAuthentication.is_current_user_owner
is_current_user_owner(se) ==
    LET auth == check_authentication(se) IN
    IF ~auth.ok THEN UNAUTHENTICATED
    ELSE IF is_project_owner(se.user_email) THEN OWNER
    ELSE NON_OWNER

\* UserAuthentication._get_user_role
get_user_role(email, db_ok) ==
    IF ~db_ok THEN EMPLOYEE
    ELSE LET user_docs == UserDocs(email) IN
         IF user_docs # <<>> THEN user_docs[1].role
         ELSE IF is_project_owner(email) THEN ADMIN
         ELSE EMPLOYEE

(***************************************************************************)
(* app.py: PrimeLabsUI.render, one script run of a session                 *)
(***************************************************************************)
\* Which of the run's reads of the "users" collection succeed.
DbUp   == [status_read |-> TRUE, approval_read |-> TRUE, role_read |-> TRUE]
DbDown == [status_read |-> FALSE, approval_read |-> FALSE, role_read |-> FALSE]
DbOutcomes == {DbUp, DbDown}

\* A render that shows the pages to every authenticated session (for comparison).
RenderOutcomeAuthenticatedOnly(se, db) ==
    IF se.user_email # None /\ ~verify_token_validity(se)
    THEN [sess |-> se, screen |-> "token_expired", user_status |-> None,
          authorization |-> None]
    ELSE LET auth == check_authentication(se)
             authorization == require_authorization(auth.sess, None, db.approval_read)
         IN [sess |-> authorization.sess,
             screen |-> IF auth.ok THEN "page" ELSE "login",
             user_status |-> None,
             authorization |-> authorization.status]

\* PrimeLabsUI.render up to the choice of the screen: the session the run leaves, the
\* screen it shows, the get_user_status result it used and the require_authorization
\* result (None where the run returns before asking for it).
RenderOutcome(se, db) ==
    IF se.user_email # None /\ ~verify_token_validity(se)
    THEN [sess |-> se, screen |-> "token_expired", user_status |-> None,
          authorization |-> None]
    ELSE LET auth == check_authentication(se)
             is_authenticated == auth.ok
             se1 == auth.sess
             user_status == IF is_authenticated
                            THEN get_user_status(se1, se1.user_email, db.status_read)
                            ELSE None
         IN IF is_authenticated /\ user_status = "rejected"
            THEN [sess |-> se1, screen |-> "rejected", user_status |-> user_status,
                  authorization |-> None]
            ELSE IF is_authenticated /\ user_status = "pending_approval"
            THEN [sess |-> se1, screen |-> "pending", user_status |-> user_status,
                  authorization |-> None]
            ELSE LET authorization == require_authorization(se1, None, db.approval_read)
                     is_authorized == authorization.status = APPROVED
                 IN [sess |-> authorization.sess,
                     screen |-> IF is_authenticated /\ is_authorized THEN "page"
                                ELSE IF is_authenticated THEN "denied"
                                ELSE "login",
                     user_status |-> user_status,
                     authorization |-> authorization.status]

\* The record kept of a session's last script run: the screen shown, the authorization
\* resolved, whether the run was processed with a token that fails validation (and did
\* not sign in), and whether its reads of the store succeeded.
ViewOf(out, token_bad, db) ==
    [screen |-> out.screen, authorization |-> out.authorization,
     token_bad |-> token_bad, db_ok |-> db = DbUp]

\* An "Admin" entry decided from the role the store holds now (for comparison).
CanOpenAdminPageStoredRole(se) ==
    is_project_owner(se.user_email) \/ get_user_role(se.user_email, TRUE) = ADMIN

\* The "Admin" entry of page_options and the re-check before show_admin_user_management.
CanOpenAdminPage(se) == is_project_owner(se.user_email) \/ se.user_role = ADMIN

(***************************************************************************)
(* Interactions of a session (each is one script run, with the rerun that  *)
(* st.rerun() starts where the handler calls it)                           *)
(***************************************************************************)
\* A page load, or a button that only reruns ("Refresh Status").
Refresh(s, db) ==
    LET out == RenderOutcome(sess[s], db) IN
    /\ sess' = [sess EXCEPT ![s] = out.sess]
    /\ view' = [view EXCEPT ![s] = ViewOf(out, ~verify_token_validity(sess[s]), db)]
    /\ UNCHANGED <<users, validTokens>>
    /\ UNCHANGED <<formVars, pureVars, lastWrite, regVars>>

\* OpeningScreen.login_screen -> UserAuthentication.login. The login form is on the
\* token-expired screen and in the sidebar of an unauthenticated run. signed_in: the
\* provider accepts the password.
Login(s, email, signed_in, db) ==
    LET out == RenderOutcome(sess[s], db)
    IN
    /\ out.screen \in {"token_expired", "login"}
    /\ ~verify_token_validity(out.sess)
    /\ signed_in => email \in credentials
    /\ IF signed_in
       THEN /\ validTokens' = (validTokens \ {sess[s].user_token}) \cup {Token(s, email)}
            /\ sess' = [sess EXCEPT ![s] =
                          [authenticated |-> TRUE,
                           user_role  |-> get_user_role(email, db.role_read),
                           user_email |-> email,
                           user_name  |-> email,
                           user_token |-> Token(s, email),
                           user_id    |-> email]]
            /\ UNCHANGED users
            /\ view' = [view EXCEPT ![s] =
                          ViewOf(RenderOutcome(sess[s], db)', FALSE, db)]
       ELSE /\ sess' = [sess EXCEPT ![s] = out.sess]
            /\ view' = [view EXCEPT ![s] = ViewOf(out, TRUE, db)]
            /\ UNCHANGED <<users, validTokens>>
    /\ UNCHANGED <<formVars, pureVars, lastWrite, regVars>>

\* The "Logout" button of the sidebar and of the pending / rejected screens. A token
\* no session holds any more is dropped from validTokens: nothing can present it.
Logout(s, db) ==
    LET out == RenderOutcome(sess[s], db) IN
    /\ out.screen \in {"page", "denied", "pending", "rejected"}
    /\ sess' = [sess EXCEPT ![s] = logout(out.sess)]
    /\ validTokens' = validTokens \ {sess[s].user_token}
    /\ UNCHANGED users
    /\ view' = [view EXCEPT ![s] = ViewOf(RenderOutcome(sess[s], db)', FALSE, db)]
    /\ UNCHANGED <<formVars, pureVars, lastWrite, regVars>>

\* The credential provider stops accepting the session's token (expiry, revocation).
ExpireToken(s) ==
    /\ verify_token_validity(sess[s])
    /\ validTokens' = validTokens \ {sess[s].user_token}
    /\ UNCHANGED <<users, sess, view>>
    /\ UNCHANGED <<formVars, pureVars, lastWrite, regVars>>

(***************************************************************************)
(* user_authentication.py: register, and the provider calls it makes       *)
(***************************************************************************)
\* The provider's answer to signUp: the new account's id and its first token.
LocalId(email) == <<"localId", email>>
IdToken(email) == <<"idToken", email>>

\* FirebaseAuthClient.create_user_with_email_and_password: the account record, or
\* raised where _make_request raises (the email already has an account, or the request
\* fails).
create_user_with_email_and_password(email, request_ok) ==
    IF request_ok /\ email \notin credentials
    THEN [raised |-> FALSE, localId |-> LocalId(email), idToken |-> IdToken(email),
          email |-> email]
    ELSE [raised |-> TRUE]

\* FirebaseAuthClient.delete_user(id_token): accounts:delete removes the account whose
\* ID token it is given; any other argument is refused and _make_request raises.
delete_user(accounts, id_token) ==
    LET owners == {e \in accounts : IdToken(e) = id_token}
    IN [raised |-> owners = {}, accounts |-> accounts \ owners]

\* A registration that stores the new profile as approved (for comparison).
RegisterUserDataApproved(email) ==
    [email |-> email, role |-> EMPLOYEE, status |-> "approved"]

\* user_data of register.
RegisterUserData(email) ==
    [email |-> email, role |-> EMPLOYEE, status |-> "pending_approval"]

\* OpeningScreen.register_screen -> UserAuthentication.register, from the opening
\* screen of a run without a valid token. request_ok: signUp is answered; write_ok:
\* create_doc succeeds. Where the handler's delete_user raises, register raises too
\* (returned = FALSE) and the account stays.
Register(s, email, request_ok, write_ok, db) ==
    LET out  == RenderOutcome(sess[s], db)
        user == create_user_with_email_and_password(email, request_ok)
        Handled(undo) ==
            /\ credentials' = undo.accounts
            /\ lastRegister' = [ran |-> TRUE, email |-> email, created |-> TRUE,
                                returned |-> ~undo.raised, ok |-> FALSE,
                                doc_id |-> <<>>]
            /\ UNCHANGED users
    IN
    /\ out.screen \in {"token_expired", "login"}
    /\ ~verify_token_validity(out.sess)
    /\ IF user.raised
       THEN /\ lastRegister' = [ran |-> TRUE, email |-> email, created |-> FALSE,
                                returned |-> TRUE, ok |-> FALSE, doc_id |-> <<>>]
            /\ UNCHANGED <<users, credentials>>
       ELSE IF write_ok
       THEN /\ credentials' = credentials \cup {email}
            /\ users' = [users EXCEPT ![email] =
                            Profile(RegisterUserData(email).status,
                                    RegisterUserData(email).role)]
            /\ lastRegister' = [ran |-> TRUE, email |-> email, created |-> TRUE,
                                returned |-> TRUE, ok |-> TRUE,
                                doc_id |-> user.localId]
       ELSE Handled(delete_user(credentials \cup {email}, user.localId))
    /\ sess' = [sess EXCEPT ![s] = out.sess]
    /\ view' = [view EXCEPT ![s] = ViewOf(out, TRUE, db)]
    /\ UNCHANGED <<validTokens, formVars, pureVars, lastWrite>>

(***************************************************************************)
(* app.py: OpeningScreen.show_admin_user_management                        *)
(***************************************************************************)
\* The run reaches the admin page and show_admin_user_management lets the session in.
AdminPageOpen(s, db) ==
    LET out == RenderOutcome(sess[s], db) IN
    /\ out.screen = "page"
    /\ CanOpenAdminPage(out.sess)
    /\ \/ is_current_user_owner(out.sess) = OWNER
       \/ out.sess.user_role = ADMIN

\* get_ist_now_str(): the time of the write, which the model does not measure.
get_ist_now_str == "now"

\* A save that writes the role whoever presses it (for comparison).
SaveUpdateDataWithRole(se, new_status, new_role, is_owner) ==
    [status |-> new_status, updated_by |-> se.user_email,
     updated_at |-> get_ist_now_str, role |-> new_role]

\* update_data of the save button of "Manage Users".
SaveUpdateData(se, new_status, new_role, is_owner) ==
    IF is_owner
    THEN [status |-> new_status, updated_by |-> se.user_email,
          updated_at |-> get_ist_now_str, role |-> new_role]
    ELSE [status |-> new_status, updated_by |-> se.user_email,
          updated_at |-> get_ist_now_str]

\* update_data of the approve and reinstate buttons.
ApproveUpdateData(se) ==
    [status |-> "approved", approved_by |-> se.user_email, approved_at |-> get_ist_now_str]

\* update_data of the reject button.
RejectUpdateData(se) ==
    [status |-> "rejected", rejected_by |-> se.user_email, rejected_at |-> get_ist_now_str]

\* db.update_doc(..., merge=True) on a stored profile, for the fields the model keeps
\* of it (status and role; the *_by / *_at stamps are written and not read again).
MergedProfile(profile, update_data) ==
    Profile(update_data.status,
            IF "role" \in DOMAIN update_data THEN update_data.role ELSE profile.role)

\* The write of an admin handler and the rerun that follows it.
AdminWrite(s, target, kind, update_data, db) ==
    /\ users' = [users EXCEPT ![target] = MergedProfile(users[target], update_data)]
    /\ lastWrite' = [kind |-> kind, by |-> sess[s].user_email, target |-> target,
                     role_written |-> "role" \in DOMAIN update_data,
                     stored |-> Len(records) + Len(expenses), at |-> clock]
    /\ UNCHANGED <<sess, validTokens>>
    /\ view' = [view EXCEPT ![s] = ViewOf(RenderOutcome(sess[s], db)', FALSE, db)]
    /\ UNCHANGED <<formVars, pureVars, regVars>>

\* Tab "Manage Users": the save button of a listed user.
AdminSave(s, target, new_status, new_role, db) ==
    LET is_owner == is_current_user_owner(sess[s]) = OWNER IN
    /\ AdminPageOpen(s, db)
    /\ users[target].doc
    /\ ~is_project_owner(target)
    /\ new_status \in {"approved", "pending_approval", "rejected"}
    /\ IF is_owner THEN new_role \in UserRole ELSE new_role = users[target].role
    /\ AdminWrite(s, target, "save",
                  SaveUpdateData(sess[s], new_status, new_role, is_owner), db)

\* Tab "Pending Approvals": approve.
AdminApprove(s, target, db) ==
    /\ AdminPageOpen(s, db)
    /\ users[target].doc /\ users[target].status = "pending_approval"
    /\ ~is_project_owner(target)
    /\ AdminWrite(s, target, "approve", ApproveUpdateData(sess[s]), db)

\* Tab "Pending Approvals": reject.
AdminReject(s, target, db) ==
    /\ AdminPageOpen(s, db)
    /\ users[target].doc /\ users[target].status = "pending_approval"
    /\ ~is_project_owner(target)
    /\ AdminWrite(s, target, "reject", RejectUpdateData(sess[s]), db)

\* Tab "Rejected Users": reinstate.
AdminReinstate(s, target, db) ==
    /\ AdminPageOpen(s, db)
    /\ users[target].doc /\ users[target].status = "rejected"
    /\ ~is_project_owner(target)
    /\ AdminWrite(s, target, "reinstate", ApproveUpdateData(sess[s]), db)

(***************************************************************************)
(* app.py: MedicalRecordForm, the commission loop of the submit handler     *)
(***************************************************************************)
\* The fields pydantic requires of a TestCommissionDetail (data_models.py: none of them
\* has a default) and the keyword arguments the submit handler passes to it.
TestCommissionDetailFields ==
    {"test_name", "test_category", "test_price", "commission_type", "commission_rate",
     "commission_amount"}

\* TestCommissionDetail(**kwargs): a missing required field raises a ValidationError,
\* a keyword that is no field of the model is dropped.
NewTestCommissionDetail(kwargs) ==
    IF TestCommissionDetailFields \subseteq DOMAIN kwargs
    THEN [ok |-> TRUE, value |-> [f \in TestCommissionDetailFields |-> kwargs[f]]]
    ELSE [ok |-> FALSE]

\* commission_lookup: the dict built from the doctor's commission_rates entries (a later
\* entry of a category overwrites an earlier one).
InCommissionLookup(commission_rates_data, cat) ==
    \E i \in 1..Len(commission_rates_data) : commission_rates_data[i].category = cat

CommissionLookup(commission_rates_data, cat) ==
    LET i == CHOOSE k \in 1..Len(commission_rates_data) :
                /\ commission_rates_data[k].category = cat
                /\ \A j \in (k + 1)..Len(commission_rates_data) :
                      commission_rates_data[j].category # cat
    IN [type |-> commission_rates_data[i].commission_type,
        rate |-> commission_rates_data[i].rate]

\* The rate the handler uses for a category: the doctor's entry, else the default table.
RateForCategory(commission_rates_data, test_category) ==
    IF InCommissionLookup(commission_rates_data, test_category)
    THEN CommissionLookup(commission_rates_data, test_category)
    ELSE DefaultRateFor(test_category)

\* Variant of OriginalCommission that rounds to the nearest rupee instead of truncating.
OriginalCommissionRounded(original_price, comm_type, comm_rate) ==
    IF comm_type = PERCENTAGE
    THEN PyInt(2 * original_price * comm_rate + 100 * RateScale, 2 * 100 * RateScale)
    ELSE PyInt(2 * comm_rate + RateScale, 2 * RateScale)

\* original_commission of the handler, from the standard price and the rate.
OriginalCommission(original_price, comm_type, comm_rate) ==
    IF comm_type = PERCENTAGE
    THEN PyInt(original_price * comm_rate, 100 * RateScale)
    ELSE PyInt(comm_rate, RateScale)

\* Variant of CommissionAmount without the max(0, ...).
CommissionAmountUnclamped(original_commission, discount) == original_commission - discount

\* commission_amount = max(0, original_commission - discount)
CommissionAmount(original_commission, discount) == Max(0, original_commission - discount)

\* One iteration of the loop over selected_tests: the keyword arguments the handler
\* computes for the test's TestCommissionDetail.
TestCommissionKwargs(test_name, test_payments, commission_rates_data) ==
    LET Detail(original_price, paid_price, test_category, cr) ==
            LET Amounts(discount, original_commission) ==
                    [test_name |-> test_name,
                     test_category |-> test_category,
                     original_price |-> original_price,
                     paid_price |-> paid_price,
                     discount |-> discount,
                     commission_type |-> cr.type,
                     commission_rate |-> cr.rate,
                     original_commission |-> original_commission,
                     commission_amount |-> CommissionAmount(original_commission, discount)]
            IN Amounts(original_price - paid_price,
                       OriginalCommission(original_price, cr.type, cr.rate))
        Categorized(original_price, test_category) ==
            Detail(original_price,
                   IF test_name \in DOMAIN test_payments
                   THEN test_payments[test_name] ELSE original_price,
                   test_category,
                   RateForCategory(commission_rates_data, test_category))
        Priced(original_price) ==
            Categorized(original_price, get_test_category(test_name, original_price))
    IN Priced(TEST_PRICES[test_name])

\* The loop from test i on: it ends by exhausting selected_tests or by the exception
\* of a TestCommissionDetail construction. total_commission is added to before the
\* detail is constructed. computed: the keyword arguments of every iteration run.
RECURSIVE CommissionLoop(_, _, _, _, _, _, _)
CommissionLoop(selected_tests, test_payments, commission_rates_data, i, test_commission_details, total_commission, computed) ==
    LET Iteration(kwargs, detail) ==
            IF detail.ok
            THEN CommissionLoop(selected_tests, test_payments, commission_rates_data, i + 1,
                                Append(test_commission_details, detail.value),
                                total_commission + kwargs.commission_amount,
                                Append(computed, kwargs))
            ELSE [raised |-> TRUE, test_commission_details |-> test_commission_details,
                  total_commission |-> total_commission + kwargs.commission_amount,
                  computed |-> Append(computed, kwargs)]
        Body(kwargs) == Iteration(kwargs, NewTestCommissionDetail(kwargs))
    IN IF i > Len(selected_tests)
       THEN [raised |-> FALSE, test_commission_details |-> test_commission_details,
             total_commission |-> total_commission, computed |-> computed]
       ELSE Body(TestCommissionKwargs(selected_tests[i], test_payments,
                                      commission_rates_data))

(***************************************************************************)
(* app.py: MedicalRecordForm.render, the form and its submit handler        *)
(***************************************************************************)
\* str.strip() for the blank the model uses.
RECURSIVE LStrip(_)
LStrip(s) == IF s # <<>> /\ Head(s) = " " THEN LStrip(Tail(s)) ELSE s

RECURSIVE RStrip(_)
RStrip(s) == IF s # <<>> /\ s[Len(s)] = " " THEN RStrip(SubSeq(s, 1, Len(s) - 1)) ELSE s

Strip(s) == RStrip(LStrip(s))

Digits == {"0", "1", "2", "3", "4", "5", "6", "7", "8", "9"}

\* MedicalRecordForm.validate_phone_number: the boolean of its result.
validate_phone_number(phone) ==
    /\ phone # <<>>
    /\ Cardinality({i \in 1..Len(phone) : phone[i] \in Digits}) >= 10

\* sum(test_payments.values()) over the selected tests.
RECURSIVE TotalPayment(_, _)
TotalPayment(selected_tests, test_payments) ==
    IF selected_tests = <<>> THEN 0
    ELSE test_payments[Head(selected_tests)] + TotalPayment(Tail(selected_tests), test_payments)

NoReason == "-- Select Reason --"

\* The value of the free-test selectbox, shown only when the total payment is 0.
FreeTestReason(input) ==
    IF input.selected_tests # <<>>
       /\ TotalPayment(input.selected_tests, input.test_payments) = 0
    THEN input.free_test_reason
    ELSE None

\* ttl of @st.cache_data(ttl=300) on get_active_doctors, in seconds.
CACHE_TTL == 300

\* A cache whose entry never expires (for comparison).
CacheFreshForever == doctorCache.filled

\* st.cache_data holds a result of get_active_doctors that has not expired.
CacheFresh == doctorCache.filled /\ clock < doctorCache.at + CACHE_TTL

\* get_active_doctors(): the cached result while it is fresh, else every document of
\* the "registered_doctors" collection as the store holds it now.
get_active_doctors == IF CacheFresh THEN doctorCache.value ELSE doctors

\* The cache after a call of get_active_doctors(): a miss stores the result read.
CacheAfterCall ==
    IF CacheFresh THEN doctorCache
    ELSE [filled |-> TRUE, value |-> doctors, at |-> clock]

\* through_referral after the doctor list is read: unticked when it is empty.
ThroughReferral(input) == input.through_referral /\ DOMAIN get_active_doctors # {}

\* selected_doctor_data is not None
DoctorSelected(input) ==
    ThroughReferral(input) /\ input.selected_doctor \in DOMAIN get_active_doctors

\* A submit button that does not ask for a free-test reason (for comparison).
can_submit_without_reason(input, processing_submission) ==
    /\ input.patient_name # <<>>
    /\ Len(Strip(input.patient_name)) >= 2
    /\ input.selected_tests # <<>>
    /\ ~processing_submission
    /\ (ThroughReferral(input) => DoctorSelected(input))
    /\ (input.phone_available =>
           (input.patient_phone # <<>> /\ validate_phone_number(input.patient_phone)))

\* can_submit: the submit button is enabled.
can_submit(input, processing_submission) ==
    LET total_payment == TotalPayment(input.selected_tests, input.test_payments)
        free_test_reason == FreeTestReason(input)
        free_test_valid == \/ total_payment > 0
                           \/ (free_test_reason # None /\ free_test_reason # NoReason)
    IN /\ input.patient_name # <<>>
       /\ Len(Strip(input.patient_name)) >= 2
       /\ input.selected_tests # <<>>
       /\ free_test_valid
       /\ ~processing_submission
       /\ (ThroughReferral(input) => DoctorSelected(input))
       /\ (input.phone_available =>
              (input.patient_phone # <<>> /\ validate_phone_number(input.patient_phone)))

NoReferralInfo == [present |-> FALSE]

\* The try block of the submit handler up to the database write: raised when an
\* exception leaves it, else the MedicalRecord built. loop: what the commission loop
\* computed (NoLoop when the record has no referral).
NoLoop == [raised |-> FALSE, test_commission_details |-> <<>>, total_commission |-> 0,
           computed |-> <<>>]

BuildRecord(input, se) ==
    LET Built(referred, loop, total_payment, free_test_reason) ==
            [raised |-> loop.raised,
             referred |-> referred,
             doctor_id |-> IF referred THEN input.selected_doctor ELSE None,
             commission_rates_data |->
                 IF referred
                 THEN get_active_doctors[input.selected_doctor].commission_rates
                 ELSE <<>>,
             loop |-> loop,
             record |-> [medical_tests |-> [i \in 1..Len(input.selected_tests) |->
                                              [name |-> input.selected_tests[i],
                                               price |-> input.test_payments[input.selected_tests[i]]]],
                         referral_info |-> IF referred
                                           THEN [present |-> TRUE,
                                                 doctor_id |-> get_active_doctors[input.selected_doctor].doctor_id,
                                                 test_commissions |-> loop.test_commission_details,
                                                 total_commission |-> loop.total_commission]
                                           ELSE NoReferralInfo,
                         payment |-> total_payment,
                         free_test_note |-> IF total_payment = 0 /\ free_test_reason # None
                                               /\ free_test_reason # NoReason
                                            THEN free_test_reason ELSE None,
                         updated_by |-> se.user_role,
                         updated_by_email |-> se.user_email]]
        Referral(referred) ==
            Built(referred,
                  IF referred
                  THEN CommissionLoop(input.selected_tests, input.test_payments,
                                      get_active_doctors[input.selected_doctor].commission_rates,
                                      1, <<>>, 0, <<>>)
                  ELSE NoLoop,
                  TotalPayment(input.selected_tests, input.test_payments),
                  FreeTestReason(input))
    IN Referral(DoctorSelected(input))

\* Cap of the model on the number of stored medical records.
MaxRecords == 1

\* max_retries of the expense form's handler.
max_retries == 3

\* The outcomes of the successive db.create_doc calls of one handler run: write_oks[k]
\* is whether the k-th call, if it is made, succeeds.
WriteOutcomes == [1..max_retries -> BOOLEAN]

\* Every call of the store succeeds; every call fails.
AllOk   == [k \in 1..max_retries |-> TRUE]
AllFail == [k \in 1..max_retries |-> FALSE]

\* The first write fails and a second one would succeed.
FailOnce == [attempt \in 1..max_retries |-> attempt > 1]

\* A handler whose except branch does not reset the in-progress flag (for comparison).
HandleSubmitKeepingFlag(s, input, built, write_oks, saved) ==
    /\ records' = IF saved THEN Append(records, built.record) ELSE records
    /\ form' = [form EXCEPT ![s].processing_submission = ~saved, ![s].show_success = saved]
    /\ doctorCache' = IF input.through_referral THEN CacheAfterCall ELSE doctorCache
    /\ lastSubmit' = [ran |-> TRUE, selected_tests |-> input.selected_tests,
                      input |-> input,
                      offered |-> IF input.through_referral
                                  THEN DOMAIN get_active_doctors ELSE {},
                      processing_before |-> form[s].processing_submission,
                      at |-> clock, doctor_id |-> built.doctor_id,
                      commission_rates_data |-> built.commission_rates_data,
                      referred |-> built.referred, write_ok |-> write_oks[1],
                      write_oks |-> write_oks, saved |-> saved,
                      raised |-> built.raised, loop |-> built.loop]

\* The end of the submit handler: the one db.create_doc call and the success screen
\* when nothing raised, the except branch otherwise. write_ok: the call does not raise.
HandleSubmit(s, input, built, write_oks, saved) ==
    /\ records' = IF saved THEN Append(records, built.record) ELSE records
    /\ form' = [form EXCEPT ![s].processing_submission = FALSE, ![s].show_success = saved]
    /\ doctorCache' = IF input.through_referral THEN CacheAfterCall ELSE doctorCache
    /\ lastSubmit' = [ran |-> TRUE, selected_tests |-> input.selected_tests,
                      input |-> input,
                      offered |-> IF input.through_referral
                                  THEN DOMAIN get_active_doctors ELSE {},
                      processing_before |-> form[s].processing_submission,
                      at |-> clock, doctor_id |-> built.doctor_id,
                      commission_rates_data |-> built.commission_rates_data,
                      referred |-> built.referred, write_ok |-> write_oks[1],
                      write_oks |-> write_oks, saved |-> saved,
                      raised |-> built.raised, loop |-> built.loop]

\* The submit button of the record form: the whole handler.
SubmitRecord(s, input, write_oks) ==
    /\ RenderOutcome(sess[s], DbUp).screen = "page"
    /\ ~form[s].show_success
    /\ can_submit(input, form[s].processing_submission)
    /\ Len(records) < MaxRecords
    /\ \E built \in {BuildRecord(input, sess[s])} :
          HandleSubmit(s, input, built, write_oks, ~built.raised /\ write_oks[1])
    /\ view' = [view EXCEPT ![s] = ViewOf(RenderOutcome(sess[s], DbUp), FALSE, DbUp)]
    /\ UNCHANGED <<users, validTokens, sess, doctors, expenses, lastExpense, clock>>
    /\ UNCHANGED <<pureVars, lastWrite, regVars>>

\* The "Add New Record" button of the success screen.
AddNewRecord(s) ==
    /\ RenderOutcome(sess[s], DbUp).screen = "page"
    /\ form[s].show_success
    /\ form' = [form EXCEPT ![s].processing_submission = FALSE, ![s].show_success = FALSE]
    /\ view' = [view EXCEPT ![s] = ViewOf(RenderOutcome(sess[s], DbUp), FALSE, DbUp)]
    /\ UNCHANGED <<users, validTokens, sess, doctors, records, expenses, lastSubmit,
                   lastExpense, clock, doctorCache>>
    /\ UNCHANGED <<pureVars, lastWrite, regVars>>

\* A run of the record form with "Patient referred by a doctor" ticked (the box is
\* ticked, or another widget is changed while it is): the doctor list is read.
ReferralTicked(s) ==
    /\ RenderOutcome(sess[s], DbUp).screen = "page"
    /\ ~form[s].show_success
    /\ doctorCache' = CacheAfterCall
    /\ view' = [view EXCEPT ![s] = ViewOf(RenderOutcome(sess[s], DbUp), FALSE, DbUp)]
    /\ UNCHANGED <<users, validTokens, sess, doctors, records, expenses, form, lastSubmit,
                   lastExpense, clock>>
    /\ UNCHANGED <<pureVars, lastWrite, regVars>>

\* Seconds that pass in one step of the clock, and the time the model runs to.
TickSeconds == 150
MaxClock == 750

\* Time passes.
Tick ==
    /\ clock + TickSeconds <= MaxClock
    /\ clock' = clock + TickSeconds
    /\ UNCHANGED <<authVars, doctors, records, expenses, form, lastSubmit, lastExpense,
                   doctorCache>>
    /\ UNCHANGED <<pureVars, lastWrite, regVars>>

(***************************************************************************)
(* The registry and the form inputs of the model                           *)
(***************************************************************************)
RateEntry(category, commission_type, rate) ==
    [category |-> category, commission_type |-> commission_type, rate |-> rate]

\* The table "Register New Doctor" stores when the rate inputs are left untouched:
\* an entry for every category of categories_config, with the default type and rate.
RegisteredDefaults ==
    <<RateEntry(USG_750, FIXED, Rate(250)), RateEntry(USG_1200, FIXED, Rate(300)),
      RateEntry(XRAY_350, FIXED, Rate(100)), RateEntry(XRAY_450, FIXED, Rate(100)),
      RateEntry(XRAY_650, FIXED, Rate(150)), RateEntry(ECG, FIXED, Rate(100)),
      RateEntry(CT_SCAN, PERCENTAGE, Rate(40)), RateEntry(PATH, PERCENTAGE, Rate(50))>>

\* A table with custom entries for some categories only (12.5 % for PATH at RateScale 2).
CustomTable ==
    <<RateEntry(PATH, PERCENTAGE, Rate(12) + 1), RateEntry(CT_SCAN, FIXED, Rate(500)),
      RateEntry(USG_1200, PERCENTAGE, Rate(33))>>

DoctorDoc(id, rates) ==
    [doctor_id |-> id, is_active |-> TRUE, commission_rates |-> rates]

Registry ==
    ("d1" :> DoctorDoc("d1", RegisteredDefaults)) @@
    ("d2" :> DoctorDoc("d2", CustomTable)) @@
    ("d3" :> DoctorDoc("d3", <<>>))

\* Selections of tests with the amounts paid for them.
Order(tests, paid) ==
    [selected_tests |-> tests,
     test_payments |-> [t \in {tests[i] : i \in 1..Len(tests)} |->
                          paid[CHOOSE i \in 1..Len(tests) : tests[i] = t]]]

Orders ==
    {Order(<<N_USG_WHOLE_ABDOMEN>>, <<p>>) : p \in {750, 600, 400, 0}} \cup
    {Order(<<N_CBC>>, <<p>>) : p \in {250, 100, 0}} \cup
    {Order(<<N_CT_SCAN_PNS>>, <<p>>) : p \in {3500, 3150}} \cup
    {Order(<<N_USG_THIGH>>, <<p>>) : p \in {1200, 1000}} \cup
    {Order(<<N_USG_WHOLE_ABDOMEN, N_CBC>>, <<750, 250>>),
     Order(<<N_CBC, N_USG_WHOLE_ABDOMEN>>, <<100, 400>>),
     Order(<<N_XRAY_MCU, N_ECG>>, <<1000, 300>>)}

FormInput(order, name, phone_available, phone, through_referral, doctor, reason) ==
    [patient_name |-> name, phone_available |-> phone_available, patient_phone |-> phone,
     through_referral |-> through_referral, selected_doctor |-> doctor,
     selected_tests |-> order.selected_tests, test_payments |-> order.test_payments,
     free_test_reason |-> reason]

ValidName  == <<"A","s","h","a">>
ShortName  == <<" ","J"," ">>
ValidPhone == <<"9","8","7","6","5"," ","4","3","2","1","0">>
ShortPhone == <<"1","2","3","4","5","6","7","8","9">>

\* Every order, unreferred or referred by a doctor of the registry, with a valid
\* patient; and the variants of one order that the form must keep from submitting.
FormInputs ==
    {FormInput(o, ValidName, FALSE, <<>>, d # None, d, "Zaruratmand") :
        o \in Orders, d \in {None} \cup DOMAIN Registry} \cup
    {FormInput(Order(<<N_CBC>>, <<250>>), ValidName, TRUE, ph, FALSE, None, NoReason) :
        ph \in {ValidPhone, ShortPhone}} \cup
    {FormInput(Order(<<N_CBC>>, <<p>>), nm, FALSE, <<>>, tr, None, NoReason) :
        p \in {250, 0}, nm \in {ValidName, ShortName}, tr \in BOOLEAN}

\* The "registered_doctors" collection before any doctor is registered.
NoDoctors == <<>>

InitFormOn(registry) ==
    /\ doctors = registry
    /\ records = <<>>
    /\ expenses = <<>>
    /\ form = [s \in Sessions |->
                  [processing_submission |-> FALSE, show_success |-> FALSE,
                   expense_processing_submission |-> FALSE,
                   expense_show_success |-> FALSE]]
    /\ clock = 0
    /\ doctorCache = [filled |-> FALSE]
    /\ lastSubmit = [ran |-> FALSE, selected_tests |-> <<>>, referred |-> FALSE,
                     at |-> 0, doctor_id |-> None, commission_rates_data |-> <<>>,
                     write_ok |-> FALSE, write_oks |-> <<>>, saved |-> FALSE,
                     raised |-> FALSE, loop |-> NoLoop]
    /\ lastExpense = [ran |-> FALSE]

InitForm == InitFormOn(Registry)

\* No admin write and no registration yet.
InitHistory ==
    /\ lastWrite = NoWrite
    /\ lastRegister = [ran |-> FALSE]

NoInput  == [given |-> FALSE]
NoOutput == [done |-> FALSE]

InitPure ==
    /\ repIn = NoInput
    /\ repOut = NoOutput
    /\ amtIn = NoInput
    /\ amtOut = NoOutput
    /\ catIn = NoInput
    /\ catOut = NoOutput
    /\ comIn = NoInput
    /\ comOut = NoOutput

(***************************************************************************)
(* app.py: ExpenseForm, the submit handler                                 *)
(***************************************************************************)
ExpenseType_OTHER == "Other Expense"

\* A validate_amount whose limit is exclusive (for comparison).
validate_amount_below_limit(amount) == ~(amount <= 0) /\ ~(amount >= 1000000)

\* ExpenseForm.validate_amount: the boolean of its result.
validate_amount(amount) == ~(amount <= 0) /\ ~(amount > 1000000)

\* A validate_description that asks for 3 characters of the type Other only (for
\* comparison).
validate_description_other_only(description_len, expense_type) ==
    /\ expense_type = ExpenseType_OTHER => ~(description_len < 3)
    /\ ~(description_len > 500)

\* ExpenseForm.validate_description: the boolean of its result. description_len is
\* len(description.strip()); an empty description has length 0.
validate_description(description_len, expense_type) ==
    /\ IF expense_type = ExpenseType_OTHER
       THEN ~(description_len = 0 \/ description_len < 3)
       ELSE IF description_len > 0 THEN ~(description_len < 3) ELSE TRUE
    /\ ~(description_len > 0 /\ description_len > 500)

\* ExpenseForm.validate_form_data: the boolean of its result.
validate_form_data(expense_type, amount, description_len, se) ==
    /\ expense_type # None
    /\ validate_amount(amount)
    /\ validate_description(description_len, expense_type)
    /\ se.user_email # None
    /\ se.user_role # None

\* can_submit of the expense form: its submit button is enabled.
expense_can_submit(input, expense_processing_submission) ==
    LET description_valid == \/ input.expense_type # ExpenseType_OTHER
                             \/ input.description_len >= 3
    IN /\ input.amount # 0
       /\ input.amount > 0
       /\ description_valid
       /\ ~expense_processing_submission

\* What the widgets of the expense form let through: number_input(min_value=1,
\* max_value=1000000) and text_area(max_chars=500).
ExpenseWidgetsAllow(input) ==
    /\ input.amount >= 1 /\ input.amount <= 1000000
    /\ input.description_len <= 500

\* A loop without the break: it makes every attempt (for comparison).
RetryLoopWithoutBreak(write_oks, attempt) ==
    [attempts |-> max_retries,
     created  |-> Cardinality({k \in 1..max_retries : write_oks[k]}),
     raised   |-> ~write_oks[max_retries]]

\* for attempt in range(max_retries), from the given attempt on: the number of
\* db.create_doc calls made, the number of documents they created, and whether the
\* loop ends by raising "Database save failed after 3 attempts".
RECURSIVE RetryLoop(_, _)
RetryLoop(write_oks, attempt) ==
    IF write_oks[attempt + 1]
    THEN [attempts |-> attempt + 1, created |-> 1, raised |-> FALSE]
    ELSE IF attempt = max_retries - 1
    THEN [attempts |-> attempt + 1, created |-> 0, raised |-> TRUE]
    ELSE RetryLoop(write_oks, attempt + 1)

\* Cap of the model on the number of stored expense records.
MaxExpenses == 2

\* expense_entry.model_dump(), for the fields the model keeps.
ExpenseEntry(input, se) ==
    [expense_type |-> input.expense_type, amount |-> input.amount,
     updated_by |-> se.user_role, updated_by_email |-> se.user_email]

\* A store that keeps every expense under one document id (for comparison).
CreatedUnderOneId(stored, entry, n) == IF n = 0 THEN stored ELSE <<entry>>

\* The collection after n successful db.create_doc calls without a document id: each
\* adds the entry under a new id.
Created(stored, entry, n) == stored \o [k \in 1..n |-> entry]

\* The submit handler of the expense form after the button was pressed: validation,
\* the ExpenseRecord, the retry loop, the success state or the except branch.
HandleExpense(s, input, write_oks, valid, loop) ==
    LET saved == valid /\ ~loop.raised IN
    /\ expenses' = IF valid THEN Created(expenses, ExpenseEntry(input, sess[s]), loop.created)
                   ELSE expenses
    /\ form' = [form EXCEPT ![s].expense_processing_submission = FALSE,
                            ![s].expense_show_success = saved]
    /\ lastExpense' = [ran |-> TRUE, by |-> s, input |-> input, write_oks |-> write_oks,
                       stored_before |-> Len(expenses),
                       valid |-> valid,
                       attempts |-> IF valid THEN loop.attempts ELSE 0,
                       error |-> IF ~valid THEN "validation"
                                 ELSE IF loop.raised THEN "save_failed" ELSE None,
                       saved |-> saved]

\* The submit button of the expense form: the whole handler.
SubmitExpense(s, input, write_oks) ==
    /\ RenderOutcome(sess[s], DbUp).screen = "page"
    /\ ~form[s].expense_show_success
    /\ ExpenseWidgetsAllow(input)
    /\ expense_can_submit(input, form[s].expense_processing_submission)
    /\ Len(expenses) < MaxExpenses
    /\ HandleExpense(s, input, write_oks,
                     validate_form_data(input.expense_type, input.amount,
                                        input.description_len, sess[s]),
                     RetryLoop(write_oks, 0))
    /\ view' = [view EXCEPT ![s] = ViewOf(RenderOutcome(sess[s], DbUp), FALSE, DbUp)]
    /\ UNCHANGED <<users, validTokens, sess, doctors, records, lastSubmit, clock,
                   doctorCache>>
    /\ UNCHANGED <<pureVars, lastWrite, regVars>>

\* The "Add New Expense" button of the expense form's success screen.
AddNewExpense(s) ==
    /\ RenderOutcome(sess[s], DbUp).screen = "page"
    /\ form[s].expense_show_success
    /\ form' = [form EXCEPT ![s].expense_show_success = FALSE]
    /\ view' = [view EXCEPT ![s] = ViewOf(RenderOutcome(sess[s], DbUp), FALSE, DbUp)]
    /\ UNCHANGED <<users, validTokens, sess, doctors, records, expenses, lastSubmit,
                   lastExpense, clock, doctorCache>>
    /\ UNCHANGED <<pureVars, lastWrite, regVars>>

(***************************************************************************)
(* app.py: OpeningScreen._render_doctor_registry                           *)
(***************************************************************************)
\* A registry tab shown to everyone the admin page lets in (for comparison).
DoctorRegistryOpenToAdmins(s, db) == AdminPageOpen(s, db)

\* The run reaches the "Doctor Registry" tab, which the admin page shows to owners.
DoctorRegistryOpen(s, db) ==
    /\ AdminPageOpen(s, db)
    /\ is_current_user_owner(RenderOutcome(sess[s], db).sess) = OWNER

\* The write of a registry handler and the rerun that follows it.
RegistryWrite(s, kind, doctor_id, written, db) ==
    /\ doctors' = written
    /\ lastWrite' = [kind |-> kind, by |-> sess[s].user_email, target |-> doctor_id,
                     role_written |-> FALSE, stored |-> Len(records) + Len(expenses),
                     at |-> clock]
    /\ view' = [view EXCEPT ![s] = ViewOf(RenderOutcome(sess[s], db), FALSE, db)]
    /\ UNCHANGED <<users, validTokens, sess, records, expenses, form, lastSubmit,
                   lastExpense, clock, doctorCache>>
    /\ UNCHANGED <<pureVars, regVars>>

\* "Register Doctor": a document under a fresh id, active, with the rates of the inputs.
RegisterDoctor(s, doctor_id, commission_rates, db) ==
    /\ DoctorRegistryOpen(s, db)
    /\ doctor_id \notin DOMAIN doctors
    /\ RegistryWrite(s, "register_doctor", doctor_id,
                     doctors @@ (doctor_id :> DoctorDoc(doctor_id, commission_rates)), db)

\* "Deactivate Doctor" / "Activate Doctor" of the selected doctor.
SetDoctorActive(s, doctor_id, db) ==
    /\ DoctorRegistryOpen(s, db)
    /\ doctor_id \in DOMAIN doctors
    /\ RegistryWrite(s, IF doctors[doctor_id].is_active THEN "deactivate" ELSE "activate",
                     doctor_id,
                     [doctors EXCEPT ![doctor_id].is_active = ~doctors[doctor_id].is_active],
                     db)

\* "Save Commission Rates" of the selected doctor.
SaveCommissionRates(s, doctor_id, updated_rates, db) ==
    /\ DoctorRegistryOpen(s, db)
    /\ doctor_id \in DOMAIN doctors
    /\ RegistryWrite(s, "save_rates", doctor_id,
                     [doctors EXCEPT ![doctor_id].commission_rates = updated_rates], db)

(***************************************************************************)
(* app.py: compute_referral_report and DailyReportPage.fetch_monthly_collections *)
(***************************************************************************)
\* referral_info.get('total_commission', 0)
TotalCommissionOf(referral_info) ==
    IF "total_commission" \in DOMAIN referral_info THEN referral_info.total_commission ELSE 0

\* A doctor's group that keeps only the last record's commission (for comparison).
GroupEntryOverwriting(entry, record) ==
    [total_commission |-> TotalCommissionOf(record.referral_info),
     total_revenue    |-> entry.total_revenue + record.payment,
     patient_count    |-> entry.patient_count + 1,
     patients         |-> Append(entry.patients,
                                 [name |-> record.patient_name, payment |-> record.payment,
                                  commission |-> TotalCommissionOf(record.referral_info)])]

\* compute_referral_report: a kept record added to its doctor's group.
GroupEntry(entry, record) ==
    [total_commission |-> entry.total_commission + TotalCommissionOf(record.referral_info),
     total_revenue    |-> entry.total_revenue + record.payment,
     patient_count    |-> entry.patient_count + 1,
     patients         |-> Append(entry.patients,
                                 [name |-> record.patient_name, payment |-> record.payment,
                                  commission |-> TotalCommissionOf(record.referral_info)])]

\* compute_referral_report: the loop over the records, from record i on.
RECURSIVE ReferralLoop(_, _, _)
ReferralLoop(recs, i, referral_data) ==
    IF i > Len(recs) THEN referral_data
    ELSE IF ~recs[i].referral_info.present THEN ReferralLoop(recs, i + 1, referral_data)
    ELSE IF TotalCommissionOf(recs[i].referral_info) <= 0
    THEN ReferralLoop(recs, i + 1, referral_data)
    ELSE LET Added(doctor_name, entry) ==
                 [n \in DOMAIN referral_data \cup {doctor_name} |->
                     IF n = doctor_name THEN GroupEntry(entry, recs[i])
                     ELSE referral_data[n]]
             Group(doctor_name) ==
                 Added(doctor_name,
                       IF doctor_name \in DOMAIN referral_data
                       THEN referral_data[doctor_name]
                       ELSE [total_commission |-> 0, total_revenue |-> 0,
                             patient_count |-> 0, patients |-> <<>>])
         IN ReferralLoop(recs, i + 1, Group(recs[i].referral_info.doctor_name))

compute_referral_report(recs) == ReferralLoop(recs, 1, <<>>)

\* fetch_monthly_collections: total_commission over the month's records, from record i.
RECURSIVE MonthlyCommission(_, _, _)
MonthlyCommission(recs, i, total_commission) ==
    IF i > Len(recs) THEN total_commission
    ELSE MonthlyCommission(recs, i + 1,
            IF recs[i].referral_info.present
            THEN total_commission + TotalCommissionOf(recs[i].referral_info)
            ELSE total_commission)

\* The records of a month the report is computed for: unreferred, referred with a
\* commission the discount used up, referred without a stored total, and referred by
\* two doctors.
ReportRecords ==
    {[patient_name |-> "Asha", payment |-> 750, referral_info |-> info] :
        info \in {NoReferralInfo,
                  [present |-> TRUE, doctor_name |-> "Dr A", total_commission |-> 0],
                  [present |-> TRUE, doctor_name |-> "Dr A", total_commission |-> 250],
                  [present |-> TRUE, doctor_name |-> "Dr A"],
                  [present |-> TRUE, doctor_name |-> "Dr B", total_commission |-> 300]}}

MaxReportRecords == 3

(***************************************************************************)
(* Specification                                                           *)
(***************************************************************************)
vars == <<users, validTokens, sess, view, doctors, records, expenses, form, lastSubmit,
         lastExpense, clock, doctorCache, catIn, catOut, comIn, comOut, lastWrite, credentials, lastRegister,
         repIn, repOut, amtIn, amtOut>>

\* Roles a profile of the model carries.
ModelRoles == {ADMIN, EMPLOYEE}

\* Profiles the store may hold for the owner's email when the application starts.
OwnerProfiles == {NoDoc, Profile("pending_approval", EMPLOYEE), Profile("rejected", EMPLOYEE)}

\* Profiles the store may hold for another email when the application starts.
InitialProfiles ==
    {NoDoc} \cup {Profile(st, EMPLOYEE) : st \in StatusValues} \cup {Profile("approved", ADMIN)}

NoView == [screen |-> None, authorization |-> None, token_bad |-> FALSE, db_ok |-> TRUE]

Init ==
    /\ users \in {u \in [Emails -> OwnerProfiles \cup InitialProfiles] :
                    /\ u[project_owner_email] \in OwnerProfiles
                    /\ \A e \in NonOwnerEmails : u[e] \in InitialProfiles}
    /\ validTokens = {}
    /\ sess = [s \in Sessions |-> ClearedSession]
    /\ view = [s \in Sessions |-> NoView]
    /\ InitForm
    /\ InitHistory
    /\ credentials = Emails
    /\ InitPure

Next ==
    \/ \E s \in Sessions, db \in DbOutcomes : Refresh(s, db)
    \/ \E s \in Sessions, email \in Emails, signed_in \in BOOLEAN, db \in DbOutcomes :
          Login(s, email, signed_in, db)
    \/ \E s \in Sessions, db \in DbOutcomes : Logout(s, db)
    \/ \E s \in Sessions : ExpireToken(s)
    \/ \E s \in Sessions, target \in Emails, new_status \in StatusValues,
          new_role \in ModelRoles, db \in DbOutcomes :
          AdminSave(s, target, new_status, new_role, db)
    \/ \E s \in Sessions, target \in Emails, db \in DbOutcomes : AdminApprove(s, target, db)
    \/ \E s \in Sessions, target \in Emails, db \in DbOutcomes : AdminReject(s, target, db)
    \/ \E s \in Sessions, target \in Emails, db \in DbOutcomes : AdminReinstate(s, target, db)

Spec == Init /\ [][Next]_vars

\* Registration onward: nobody has an account or a profile when the application is
\* first deployed; people register, sign in and are handled on the Admin page.
InitRegister ==
    /\ users = [e \in Emails |-> NoDoc]
    /\ validTokens = {}
    /\ sess = [s \in Sessions |-> ClearedSession]
    /\ view = [s \in Sessions |-> NoView]
    /\ InitForm
    /\ InitHistory
    /\ credentials = {}
    /\ InitPure

NextRegister ==
    \/ \E s \in Sessions, email \in Emails, request_ok \in BOOLEAN, write_ok \in BOOLEAN,
          db \in DbOutcomes : Register(s, email, request_ok, write_ok, db)
    \/ \E s \in Sessions, email \in Emails, signed_in \in BOOLEAN, db \in DbOutcomes :
          Login(s, email, signed_in, db)
    \/ \E s \in Sessions, db \in DbOutcomes : Refresh(s, db)
    \/ \E s \in Sessions, db \in DbOutcomes : Logout(s, db)
    \/ \E s \in Sessions, target \in Emails, new_status \in StatusValues,
          new_role \in ModelRoles, db \in DbOutcomes :
          AdminSave(s, target, new_status, new_role, db)
    \/ \E s \in Sessions, target \in Emails, db \in DbOutcomes : AdminApprove(s, target, db)
    \/ \E s \in Sessions, target \in Emails, db \in DbOutcomes : AdminReject(s, target, db)
    \/ \E s \in Sessions, target \in Emails, db \in DbOutcomes : AdminReinstate(s, target, db)

SpecRegister == InitRegister /\ [][NextRegister]_vars

\* The ledgers and the registry: the owner and the other user, an Admin whose status
\* is being changed, work on the expense form, the registry and the Admin page; the
\* record form is used from the second session, and every write to the store succeeds.

LedgerRecordInputs ==
    {i \in FormInputs : /\ i.selected_tests = <<N_CBC>>
                        /\ i.patient_name = ValidName
                        /\ ~i.phone_available
                        /\ ~i.through_referral
                        /\ i.free_test_reason = NoReason
                        /\ i.test_payments[N_CBC] = 250}

LedgerExpenseInputs ==
    {[expense_type |-> "Rent", amount |-> 500, description_len |-> 0],
     [expense_type |-> ExpenseType_OTHER, amount |-> 500, description_len |-> 0]}

\* The table of the rate inputs after one of them was edited (PATH to 10 %).
EditedRates == [RegisteredDefaults EXCEPT ![8] = RateEntry(PATH, PERCENTAGE, Rate(10))]

InitLedger ==
    /\ users = (project_owner_email :> NoDoc) @@
               [e \in NonOwnerEmails |-> Profile("approved", ADMIN)]
    /\ validTokens = {}
    /\ sess = [s \in Sessions |-> ClearedSession]
    /\ view = [s \in Sessions |-> NoView]
    /\ InitForm
    /\ InitHistory
    /\ credentials = Emails
    /\ InitPure

NextLedger ==
    \/ Login("s1", project_owner_email, TRUE, DbUp)
    \/ \E email \in NonOwnerEmails : Login("s2", email, TRUE, DbUp)
    \/ \E s \in Sessions : Refresh(s, DbUp)
    \/ \E s \in Sessions, target \in NonOwnerEmails, new_status \in {"approved", "rejected"} :
          AdminSave(s, target, new_status, ADMIN, DbUp)
    \/ \E input \in LedgerRecordInputs : SubmitRecord("s2", input, AllOk)
    \/ AddNewRecord("s2")
    \/ \E s \in Sessions, input \in LedgerExpenseInputs : SubmitExpense(s, input, AllOk)
    \/ \E s \in Sessions : AddNewExpense(s)
    \/ \E s \in Sessions : RegisterDoctor(s, "d4", RegisteredDefaults, DbUp)
    \/ \E s \in Sessions : SetDoctorActive(s, "d3", DbUp)
    \/ \E s \in Sessions : SaveCommissionRates(s, "d3", EditedRates, DbUp)

SpecLedger == InitLedger /\ [][NextLedger]_vars

\* The referral report of a month, computed from the month's records.
InitReport ==
    /\ repIn \in {[given |-> TRUE, records |-> recs] :
                     recs \in UNION {[1..n -> ReportRecords] : n \in 0..MaxReportRecords}}
    /\ repOut = NoOutput
    /\ amtIn = NoInput
    /\ amtOut = NoOutput
    /\ catIn = NoInput
    /\ catOut = NoOutput
    /\ comIn = NoInput
    /\ comOut = NoOutput
    /\ users = [e \in Emails |-> NoDoc]
    /\ validTokens = {}
    /\ sess = [s \in Sessions |-> ClearedSession]
    /\ view = [s \in Sessions |-> NoView]
    /\ InitForm
    /\ InitHistory
    /\ credentials = Emails

\* DailyReportPage: fetch_monthly_collections, then compute_referral_report.
ComputeReport ==
    /\ ~repOut.done
    /\ repOut' = [done |-> TRUE,
                  total_commission |-> MonthlyCommission(repIn.records, 1, 0),
                  referral_data |-> compute_referral_report(repIn.records)]
    /\ UNCHANGED <<catIn, catOut, comIn, comOut, repIn, amtIn, amtOut>>
    /\ UNCHANGED <<authVars, formVars, lastWrite, regVars>>

NextReport == ComputeReport

SpecReport == InitReport /\ [][NextReport]_vars

(***************************************************************************)
(* app.py: DailyReportPage._render_monthly_report, the summary card        *)
(***************************************************************************)
\* fetch_monthly_collections: the sum of the payments, from record i on.
RECURSIVE MonthlyCollection(_, _, _)
MonthlyCollection(recs, i, total_collection) ==
    IF i > Len(recs) THEN total_collection
    ELSE MonthlyCollection(recs, i + 1, total_collection + recs[i].payment)

\* fetch_monthly_expenses: the sum of the amounts, from expense i on.
RECURSIVE MonthlyExpenses(_, _, _)
MonthlyExpenses(exps, i, total_expenses) ==
    IF i > Len(exps) THEN total_expenses
    ELSE MonthlyExpenses(exps, i + 1, total_expenses + exps[i].amount)

\* fetch_monthly_collections: (records, total_collection, total_commission), or
\* ([], 0, 0) when the read raises.
fetch_monthly_collections(recs, read_ok) ==
    IF read_ok
    THEN [records |-> recs,
          total_collection |-> MonthlyCollection(recs, 1, 0),
          total_commission |-> MonthlyCommission(recs, 1, 0)]
    ELSE [records |-> <<>>, total_collection |-> 0, total_commission |-> 0]

\* fetch_monthly_expenses: (expenses, total_expenses), or ([], 0) when the read raises.
fetch_monthly_expenses(exps, read_ok) ==
    IF read_ok
    THEN [expenses |-> exps, total_expenses |-> MonthlyExpenses(exps, 1, 0)]
    ELSE [expenses |-> <<>>, total_expenses |-> 0]

\* A net amount that leaves the commissions out (for comparison).
net_amount_without_commission(total_collection, total_expenses, total_commission) ==
    total_collection - total_expenses

\* net_amount = total_collection - total_expenses - total_commission
net_amount(total_collection, total_expenses, total_commission) ==
    total_collection - total_expenses - total_commission

\* The records and the expenses of a month: unreferred and referred payments, with a
\* small and a large commission.
MonthRecords ==
    {[patient_name |-> "Asha", payment |-> payment, referral_info |-> info] :
        payment \in {20000, 50000},
        info \in {NoReferralInfo,
                  [present |-> TRUE, doctor_name |-> "Dr A", total_commission |-> 250],
                  [present |-> TRUE, doctor_name |-> "Dr A", total_commission |-> 25000]}}

MonthExpenses == {[expense_type |-> "Rent", amount |-> amount] : amount \in {30000, 35000}}

MaxMonthRecords == 2
MaxMonthExpenses == 2

InitMonthly ==
    /\ repIn \in {[given |-> TRUE, records |-> recs, expenses |-> exps,
                    records_read |-> r_ok, expenses_read |-> e_ok] :
                     recs \in UNION {[1..n -> MonthRecords] : n \in 0..MaxMonthRecords},
                     exps \in UNION {[1..n -> MonthExpenses] : n \in 0..MaxMonthExpenses},
                     r_ok \in BOOLEAN, e_ok \in BOOLEAN}
    /\ repOut = NoOutput
    /\ amtIn = NoInput
    /\ amtOut = NoOutput
    /\ catIn = NoInput
    /\ catOut = NoOutput
    /\ comIn = NoInput
    /\ comOut = NoOutput
    /\ users = [e \in Emails |-> NoDoc]
    /\ validTokens = {}
    /\ sess = [s \in Sessions |-> ClearedSession]
    /\ view = [s \in Sessions |-> NoView]
    /\ InitForm
    /\ InitHistory
    /\ credentials = Emails

\* _render_monthly_report: the month's data fetched and the summary card computed.
RenderMonthlyReport ==
    /\ ~repOut.done
    /\ LET col == fetch_monthly_collections(repIn.records, repIn.records_read)
           exp == fetch_monthly_expenses(repIn.expenses, repIn.expenses_read)
           net == net_amount(col.total_collection, exp.total_expenses, col.total_commission)
           is_profit == net >= 0
       IN repOut' = [done |-> TRUE,
                     total_collection |-> col.total_collection,
                     total_commission |-> col.total_commission,
                     total_expenses |-> exp.total_expenses,
                     net_amount |-> net,
                     is_profit |-> is_profit,
                     status_text |-> IF is_profit THEN "Net Profit" ELSE "Net Loss"]
    /\ UNCHANGED <<catIn, catOut, comIn, comOut, repIn, amtIn, amtOut>>
    /\ UNCHANGED <<authVars, formVars, lastWrite, regVars>>

NextMonthly == RenderMonthlyReport

SpecMonthly == InitMonthly /\ [][NextMonthly]_vars

(***************************************************************************)
(* app.py: ExpenseForm.validate_amount applied to an amount                *)
(***************************************************************************)
\* Amounts beside the limits 0 and 1,000,000 and between them.
Amounts == (-30 .. 30) \cup (999970 .. 1000030) \cup {500, 500000, 2000000}

InitAmount ==
    /\ amtIn \in {[given |-> TRUE, amount |-> a] : a \in Amounts}
    /\ amtOut = NoOutput
    /\ repIn = NoInput
    /\ repOut = NoOutput
    /\ catIn = NoInput
    /\ catOut = NoOutput
    /\ comIn = NoInput
    /\ comOut = NoOutput
    /\ users = [e \in Emails |-> NoDoc]
    /\ validTokens = {}
    /\ sess = [s \in Sessions |-> ClearedSession]
    /\ view = [s \in Sessions |-> NoView]
    /\ InitForm
    /\ InitHistory
    /\ credentials = Emails

ValidateAmount ==
    /\ ~amtOut.done
    /\ amtOut' = [done |-> TRUE, valid |-> validate_amount(amtIn.amount)]
    /\ UNCHANGED <<catIn, catOut, comIn, comOut, repIn, repOut, amtIn>>
    /\ UNCHANGED <<authVars, formVars, lastWrite, regVars>>

NextAmount == ValidateAmount

SpecAmount == InitAmount /\ [][NextAmount]_vars

(***************************************************************************)
(* The record form used by one session, on a store with an approved user    *)
(***************************************************************************)
FormSession == "s1"

InitRecordForm ==
    /\ users = (project_owner_email :> NoDoc) @@
               [e \in NonOwnerEmails |-> Profile("approved", EMPLOYEE)]
    /\ validTokens = {}
    /\ sess = [s \in Sessions |-> ClearedSession]
    /\ view = [s \in Sessions |-> NoView]
    /\ \E registry \in {Registry, NoDoctors} : InitFormOn(registry)
    /\ InitHistory
    /\ credentials = Emails
    /\ InitPure

NextRecordForm ==
    \/ \E email \in Emails : Login(FormSession, email, TRUE, DbUp)
    \/ Logout(FormSession, DbUp)
    \/ \E input \in FormInputs, write_oks \in {AllOk, FailOnce} :
          SubmitRecord(FormSession, input, write_oks)
    \/ AddNewRecord(FormSession)

SpecRecordForm == InitRecordForm /\ [][NextRecordForm]_vars

(***************************************************************************)
(* The record form and the expense form used by one session                 *)
(***************************************************************************)
\* An unreferred record that is paid for, and one whose referral makes the handler raise.
FormsRecordInputs ==
    {FormInput(Order(<<N_CBC>>, <<250>>), ValidName, FALSE, <<>>, d # None, d, NoReason) :
        d \in {None, "d1"}}

\* Expenses the button lets through and validation accepts or refuses, and one the
\* button keeps back (type Other without a description).
FormsExpenseInputs ==
    {[expense_type |-> "Rent", amount |-> 500, description_len |-> 0],
     [expense_type |-> "Rent", amount |-> 1000000, description_len |-> 2],
     [expense_type |-> ExpenseType_OTHER, amount |-> 500, description_len |-> 3],
     [expense_type |-> ExpenseType_OTHER, amount |-> 500, description_len |-> 0]}

InitForms ==
    /\ users = (project_owner_email :> NoDoc) @@
               [e \in NonOwnerEmails |-> Profile("approved", EMPLOYEE)]
    /\ validTokens = {}
    /\ sess = [s \in Sessions |-> ClearedSession]
    /\ view = [s \in Sessions |-> NoView]
    /\ InitForm
    /\ InitHistory
    /\ credentials = Emails
    /\ InitPure

NextForms ==
    \/ \E email \in Emails : Login(FormSession, email, TRUE, DbUp)
    \/ \E input \in FormsRecordInputs, write_oks \in {AllOk, AllFail} :
          SubmitRecord(FormSession, input, write_oks)
    \/ AddNewRecord(FormSession)
    \/ \E input \in FormsExpenseInputs, write_oks \in WriteOutcomes :
          SubmitExpense(FormSession, input, write_oks)
    \/ AddNewExpense(FormSession)

SpecForms == InitForms /\ [][NextForms]_vars

(***************************************************************************)
(* The doctor list cached for the record form while the registry is edited *)
(***************************************************************************)
\* A referred order (CBC, paid in full) for the doctor whose rates are edited.
CacheRecordInputs == {i \in FormsRecordInputs : i.through_referral}

\* The owner edits the registry in one session; an approved employee fills the
\* record form in the other.
InitCache ==
    /\ users = (project_owner_email :> NoDoc) @@
               [e \in NonOwnerEmails |-> Profile("approved", EMPLOYEE)]
    /\ validTokens = {}
    /\ sess = [s \in Sessions |-> ClearedSession]
    /\ view = [s \in Sessions |-> NoView]
    /\ InitForm
    /\ InitHistory
    /\ credentials = Emails
    /\ InitPure

NextCache ==
    \/ Login("s1", project_owner_email, TRUE, DbUp)
    \/ \E email \in NonOwnerEmails : Login("s2", email, TRUE, DbUp)
    \/ Tick
    \/ \E updated_rates \in {EditedRates, RegisteredDefaults} :
          SaveCommissionRates("s1", "d1", updated_rates, DbUp)
    \/ SetDoctorActive("s1", "d1", DbUp)
    \/ ReferralTicked("s2")
    \/ \E input \in CacheRecordInputs : SubmitRecord("s2", input, AllOk)

SpecCache == InitCache /\ [][NextCache]_vars

(***************************************************************************)
(* get_test_category applied to a name and a price                          *)
(***************************************************************************)
\* Names beside the catalog's: other letter cases, names that match several rules,
\* names that hold a keyword away from the place its rule looks at, the empty name.
CatNames ==
    DOMAIN TEST_PRICES \cup
    {<<"c","t"," ","s","c","a","n"," ","x">>,
     <<"C","t","-","S","c","a","n"," ","U","S","G">>,
     <<"X","r","a","y"," ","U","S","G">>,
     <<"x","-","r","a","y"," ","e","c","g">>,
     <<"M","Y"," ","X","-","R","A","Y">>,
     <<"U","S","G"," ","X","-","R","A","Y">>,
     <<"E","C","G"," ","U","S","G">>,
     <<"U","l","t","r","a","s","o","u","n","d">>,
     <<"a"," ","s","o","n","o","g","r","a","p","h","y">>,
     <<"2","D"," ","e","k","g">>,
     <<"2","D"," ","E","C","H","O">>,
     <<"C","T","S","C","A","N">>,
     <<" ","C","T","-","S","C","A","N">>,
     <<"X"," ","R","A","Y">>,
     <<"U","S"," ","G">>,
     <<>>}

CatPrices == {0, 350, 351, 450, 451, 750, 751, 1200}

InitCat ==
    /\ catIn \in {[given |-> TRUE, test_name |-> n, test_price |-> pr] :
                     n \in CatNames, pr \in CatPrices}
    /\ catOut = NoOutput
    /\ comIn = NoInput
    /\ comOut = NoOutput
    /\ repIn = NoInput
    /\ repOut = NoOutput
    /\ amtIn = NoInput
    /\ amtOut = NoOutput
    /\ users = [e \in Emails |-> NoDoc]
    /\ validTokens = {}
    /\ sess = [s \in Sessions |-> ClearedSession]
    /\ view = [s \in Sessions |-> NoView]
    /\ InitForm
    /\ InitHistory
    /\ credentials = Emails

Categorize ==
    /\ ~catOut.done
    /\ catOut' = [done |-> TRUE,
                  category |-> get_test_category(catIn.test_name, catIn.test_price)]
    /\ UNCHANGED <<catIn, comIn, comOut, repIn, repOut, amtIn, amtOut>>
    /\ UNCHANGED <<authVars, formVars, lastWrite, regVars>>

NextCat == Categorize

SpecCat == InitCat /\ [][NextCat]_vars

(***************************************************************************)
(* The commission loop applied to a selection, its payments and a rate table *)
(***************************************************************************)
\* What is paid for a test of standard price pr: all of it, part of it, nothing.
PaidModes == {"full", "half", "less150", "free"}

PaidFor(mode, pr) ==
    IF mode = "full" THEN pr
    ELSE IF mode = "half" THEN pr \div 2
    ELSE IF mode = "less150" THEN Max(0, pr - 150)
    ELSE 0

\* Rates a table entry may hold: 0, 12.5, 40, 100.5, 250 (at RateScale 2).
EntryRates == {0, Rate(12) + 1, Rate(40), Rate(100) + 1, Rate(250)}

RateTables ==
    {<<>>, RegisteredDefaults, CustomTable} \cup
    {<<RateEntry(c, t, r)>> : c \in TestCategory, t \in CommissionType, r \in EntryRates}

Selections ==
    {<<n>> : n \in DOMAIN TEST_PRICES} \cup
    {<<N_USG_WHOLE_ABDOMEN, N_CBC>>, <<N_CBC, N_CT_SCAN_PNS>>}

InitCommission ==
    /\ comIn \in {[given |-> TRUE, selected_tests |-> sel,
                   test_payments |-> [n \in {sel[i] : i \in 1..Len(sel)} |->
                                        PaidFor(mode, TEST_PRICES[n])],
                   commission_rates |-> table] :
                     sel \in Selections, mode \in PaidModes, table \in RateTables}
    /\ comOut = NoOutput
    /\ catIn = NoInput
    /\ catOut = NoOutput
    /\ repIn = NoInput
    /\ repOut = NoOutput
    /\ amtIn = NoInput
    /\ amtOut = NoOutput
    /\ users = [e \in Emails |-> NoDoc]
    /\ validTokens = {}
    /\ sess = [s \in Sessions |-> ClearedSession]
    /\ view = [s \in Sessions |-> NoView]
    /\ InitForm
    /\ InitHistory
    /\ credentials = Emails

\* The loop of the submit handler on comIn, and RegisteredDoctor's
\* get_commission_for_category for the first selected test.
ComputeCommission ==
    /\ ~comOut.done
    /\ comOut' = [done |-> TRUE,
                  loop |-> CommissionLoop(comIn.selected_tests, comIn.test_payments,
                                          comIn.commission_rates, 1, <<>>, 0, <<>>),
                  doctor |-> get_commission_for_category(
                                 comIn.commission_rates,
                                 get_test_category(comIn.selected_tests[1],
                                                   TEST_PRICES[comIn.selected_tests[1]]),
                                 TEST_PRICES[comIn.selected_tests[1]])]
    /\ UNCHANGED <<catIn, catOut, comIn, repIn, repOut, amtIn, amtOut>>
    /\ UNCHANGED <<authVars, formVars, lastWrite, regVars>>

NextCommission == ComputeCommission

SpecCommission == InitCommission /\ [][NextCommission]_vars

(***************************************************************************)
(* Properties                                                              *)
(***************************************************************************)

\* C1: every commission_amount the referral loop computes equals
\* max(0, original_commission - discount) and so is >= 0, for every category, every
\* rate >= 0 and every discount >= 0; the total_commission of the loop is never
\* negative; and so it is in every stored record that holds referral info.
C1_CommissionNonNegative ==
    /\ comOut.done =>
          /\ \A i \in 1..Len(comOut.loop.computed) :
                LET k == comOut.loop.computed[i]
                    difference == k.original_commission - k.discount
                IN (k.commission_rate >= 0 /\ k.discount >= 0) =>
                      /\ k.commission_amount = (IF difference > 0 THEN difference ELSE 0)
                      /\ k.commission_amount >= 0
          /\ \A i \in 1..Len(comOut.loop.test_commission_details) :
                comOut.loop.test_commission_details[i].commission_amount >= 0
          /\ comOut.loop.total_commission >= 0
    /\ \A i \in 1..Len(records) :
          records[i].referral_info.present =>
             /\ records[i].referral_info.total_commission >= 0
             /\ \A j \in 1..Len(records[i].referral_info.test_commissions) :
                   records[i].referral_info.test_commissions[j].commission_amount >= 0

\* C1 witness: the loop ran on a test whose discount exceeds its original commission,
\* and the commission it computed is 0.
C1_Witness ==
    /\ comOut.done
    /\ \E i \in 1..Len(comOut.loop.computed) :
          LET k == comOut.loop.computed[i] IN
          /\ k.original_commission > 0
          /\ k.discount > k.original_commission
          /\ k.commission_amount = 0
    /\ comOut.loop.total_commission = 0

\* C2: the original commission of a referred test is floor(standard_price * rate / 100)
\* for a percentage rate and floor(rate), whatever the price, for a fixed rate; it is
\* taken from the standard catalog price, not from the price paid; the discount is
\* standard price minus paid price. TestCommissionRate.calculate_commission gives the
\* same amount for the same entry.
C2_OriginalCommissionFromStandardPrice ==
    comOut.done =>
       /\ \A i \in 1..Len(comOut.loop.computed) :
             LET k == comOut.loop.computed[i]
                 standard_price == TEST_PRICES[k.test_name]
                 paid_price == comIn.test_payments[k.test_name]
                 IsFloor(n, num, den) == n * den <= num /\ num < (n + 1) * den
             IN /\ k.commission_type \in CommissionType
                /\ k.commission_type = PERCENTAGE =>
                      IsFloor(k.original_commission, standard_price * k.commission_rate,
                              100 * RateScale)
                /\ k.commission_type = FIXED =>
                      IsFloor(k.original_commission, k.commission_rate, RateScale)
                /\ k.discount = standard_price - paid_price
       /\ comOut.doctor[1] = comOut.loop.computed[1].original_commission

\* C2 witness: a percentage commission on a discounted test, truncated to whole rupees.
C2_Witness ==
    /\ comOut.done
    /\ \E i \in 1..Len(comOut.loop.computed) :
          LET k == comOut.loop.computed[i] IN
          /\ k.commission_type = PERCENTAGE
          /\ k.paid_price < k.original_price
          /\ k.original_commission > 0
          /\ k.original_commission * 100 * RateScale < k.original_price * k.commission_rate

\* C3: when the doctor's rate table has no entry for a test's category, the handler
\* and RegisteredDoctor.get_commission_for_category use the default-rate entry of the
\* category (USG-750 fixed 250, CT-SCAN 40 %, PATH 50 %, ...), and type, rate and
\* amounts are exactly those of a doctor whose only entry is that default.
C3_FallbackEqualsExplicitDefault ==
    comOut.done =>
       \A i \in 1..Len(comOut.loop.computed) :
          LET k == comOut.loop.computed[i]
              cat == k.test_category
              missing == \A j \in 1..Len(comIn.commission_rates) :
                            comIn.commission_rates[j].category # cat
              default == DEFAULT_COMMISSION_RATES[cat]
              explicit == <<[category |-> cat, commission_type |-> default.type,
                             rate |-> default.rate]>>
          IN missing =>
                /\ k = TestCommissionKwargs(k.test_name, comIn.test_payments, explicit)
                /\ k.commission_type = default.type
                /\ k.commission_rate = default.rate
                /\ cat = USG_750 => (k.commission_type = FIXED /\ k.original_commission = 250)
                /\ cat = CT_SCAN =>
                      (k.commission_type = PERCENTAGE
                       /\ k.original_commission * 100 = k.original_price * 40)
                /\ cat = PATH =>
                      (k.commission_type = PERCENTAGE
                       /\ k.original_commission * 100 = k.original_price * 50)
                /\ i = 1 => comOut.doctor =
                               get_commission_for_category(explicit, cat, k.original_price)

\* C3 witness: a doctor with a table of custom rates, none of them for the category of
\* the test, and a commission computed from the default.
C3_Witness ==
    /\ comOut.done
    /\ comIn.commission_rates # <<>>
    /\ \E i \in 1..Len(comOut.loop.computed) :
          LET k == comOut.loop.computed[i] IN
          /\ \A j \in 1..Len(comIn.commission_rates) :
                comIn.commission_rates[j].category # k.test_category
          /\ k.commission_amount > 0

C5_UsgWholeAbdomenExample ==
    (/\ lastSubmit.ran
     /\ lastSubmit.referred
     /\ lastSubmit.write_ok
     /\ lastSubmit.selected_tests = <<N_USG_WHOLE_ABDOMEN>>
     /\ lastSubmit.loop.computed[1].commission_type = FIXED
     /\ lastSubmit.loop.computed[1].commission_rate = 250 * RateScale
     /\ lastSubmit.loop.computed[1].paid_price \in {750, 600, 400}) =>
        LET k == lastSubmit.loop.computed[1]
            expected == IF k.paid_price = 750 THEN [discount |-> 0, amount |-> 250]
                        ELSE IF k.paid_price = 600 THEN [discount |-> 150, amount |-> 100]
                        ELSE [discount |-> 350, amount |-> 0]
        IN /\ k.original_commission = 250
           /\ k.discount = expected.discount
           /\ k.commission_amount = expected.amount
           /\ lastSubmit.saved
           /\ records # <<>>
           /\ records[Len(records)].referral_info.present
           /\ Len(records[Len(records)].referral_info.test_commissions) = 1
           /\ records[Len(records)].referral_info.test_commissions[1].commission_amount =
                 expected.amount
           /\ records[Len(records)].referral_info.total_commission = expected.amount

\* C6: get_test_category is total and, matching the name without regard to letter
\* case, returns the category of the first rule that matches, in the order: starts with
\* "CT-SCAN" or "CT SCAN" -> CT-SCAN; starts with "X-RAY" or "XRAY" -> X-RAY-350 up to
\* price 350, X-RAY-450 up to 450, else X-RAY-650; contains "USG", "ULTRASOUND" or
\* "SONOGRAPHY" -> USG-750 up to price 750, else USG-1200; contains "ECG" or "EKG" ->
\* ECG; otherwise PATH.
C6_FirstMatchingRuleWins ==
    LET name == catIn.test_name
        price == catIn.test_price
        SameLetter(c, u) == c = u \/ (c \in DOMAIN LowerToUpper /\ LowerToUpper[c] = u)
        Begins(pattern) ==
            /\ Len(name) >= Len(pattern)
            /\ \A i \in 1..Len(pattern) : SameLetter(name[i], pattern[i])
        Holds(pattern) ==
            \E k \in 0..(Len(name) - Len(pattern)) :
               \A i \in 1..Len(pattern) : SameLetter(name[k + i], pattern[i])
        rules ==
            <<[matches  |-> Begins(S_CT_SCAN_DASH) \/ Begins(S_CT_SCAN_SPACE),
               category |-> CT_SCAN],
              [matches  |-> Begins(S_X_RAY) \/ Begins(S_XRAY),
               category |-> IF price <= 350 THEN XRAY_350
                            ELSE IF price <= 450 THEN XRAY_450 ELSE XRAY_650],
              [matches  |-> Holds(S_USG) \/ Holds(S_ULTRASOUND) \/ Holds(S_SONOGRAPHY),
               category |-> IF price <= 750 THEN USG_750 ELSE USG_1200],
              [matches  |-> Holds(S_ECG) \/ Holds(S_EKG),
               category |-> ECG],
              [matches  |-> TRUE,
               category |-> PATH]>>
        first == CHOOSE i \in 1..Len(rules) :
                    rules[i].matches /\ \A j \in 1..(i - 1) : ~rules[j].matches
    IN catOut.done =>
          /\ catOut.category \in TestCategory
          /\ catOut.category = rules[first].category
          /\ catOut.category = get_test_category(name, price)

\* C6 witness: a name in mixed case that matches the X-RAY rule and the USG rule was
\* categorized by the X-RAY rule.
C6_Witness ==
    /\ catOut.done
    /\ catIn.test_name = <<"X","r","a","y"," ","U","S","G">>
    /\ catIn.test_price = 451
    /\ catOut.category = XRAY_650

\* C7: whenever a script run is processed with a missing, expired or invalid token
\* (and does not sign in), every session field set at login is cleared by the end of
\* the run, whatever the entry point, the token-expired screen included.
C7_InvalidTokenClearsSession ==
    \A s \in Sessions : view[s].token_bad => sess[s] = ClearedSession

\* C8: for a session with a valid token whose email is a configured owner address,
\* authorization resolves to APPROVED whatever the stored profile is (absent, pending,
\* rejected), in every state that admin approve / reject / save actions lead to.
C8_OwnerAlwaysApproved ==
    \A s \in Sessions :
       (/\ sess[s].user_token # NoToken
        /\ sess[s].user_token \in validTokens
        /\ sess[s].user_email = project_owner_email) =>
          \A db_ok \in BOOLEAN :
             /\ require_authorization(sess[s], None, db_ok).status = APPROVED
             /\ check_user_approval_status(sess[s], sess[s].user_email, db_ok)
             /\ get_user_status(sess[s], sess[s].user_email, db_ok) = "approved"
             /\ RenderOutcome(sess[s], IF db_ok THEN DbUp ELSE DbDown).screen = "page"

\* C8 witness: the owner, whose stored profile says "rejected", is signed in and the
\* last run resolved APPROVED and showed a page.
C8_Witness ==
    \E s \in Sessions :
       /\ sess[s].user_token \in validTokens
       /\ sess[s].user_email = project_owner_email
       /\ users[project_owner_email].doc
       /\ users[project_owner_email].status = "rejected"
       /\ view[s].authorization = APPROVED
       /\ view[s].screen = "page"

\* C9: for a valid-token user who is no owner, authorization resolves to APPROVED only
\* if a stored profile exists for the email with status exactly "approved"; with no
\* profile, or a status that is "pending_approval", missing or anything else, the
\* result is PENDING_APPROVAL.
C9_NonOwnerApprovedOnlyIfStatusApproved ==
    \A s \in Sessions :
       (/\ sess[s].user_token # NoToken
        /\ sess[s].user_token \in validTokens
        /\ sess[s].user_email \in NonOwnerEmails) =>
          \A db_ok \in BOOLEAN, role \in {None} \cup UserRole :
             LET email == sess[s].user_email
                 stored_approved == /\ db_ok
                                    /\ users[email].doc
                                    /\ users[email].status = "approved"
                 result == require_authorization(sess[s], role, db_ok).status
             IN /\ stored_approved => result \in {APPROVED, UNAUTHORIZED}
                /\ (stored_approved /\ role = None) => result = APPROVED
                /\ ~stored_approved => result = PENDING_APPROVAL

\* C9 witness: a signed-in user whose stored status is a value the code does not know,
\* for whom the last run resolved PENDING_APPROVAL.
C9_Witness ==
    \E s \in Sessions :
       /\ sess[s].user_token \in validTokens
       /\ sess[s].user_email \in NonOwnerEmails
       /\ users[sess[s].user_email].doc
       /\ users[sess[s].user_email].status = "active"
       /\ view[s].db_ok
       /\ view[s].authorization = PENDING_APPROVAL

\* C10: for a valid-token user who is no owner and whose stored status is "rejected",
\* authorization resolves to REJECTED, not PENDING_APPROVAL, and the run shows the
\* rejected screen, not the pending screen.
C10_RejectedResolvesRejected ==
    \A s \in Sessions :
       (/\ sess[s].user_token # NoToken
        /\ sess[s].user_token \in validTokens
        /\ sess[s].user_email \in NonOwnerEmails
        /\ users[sess[s].user_email].doc
        /\ users[sess[s].user_email].status = "rejected") =>
          /\ RenderOutcome(sess[s], DbUp).screen = "rejected"
          /\ require_authorization(sess[s], None, TRUE).status = REJECTED

\* C11: for an approved user and an operation that requires role R, authorization is
\* UNAUTHORIZED when the user's role differs from R, except that the Owner and users
\* with the Admin role are let through and get APPROVED.
C11_RoleGateWithOverride ==
    \A s \in Sessions :
       (/\ sess[s].user_token # NoToken
        /\ sess[s].user_token \in validTokens
        /\ require_authorization(sess[s], None, TRUE).status = APPROVED) =>
          \A role \in UserRole :
             LET override == \/ sess[s].user_email = project_owner_email
                             \/ sess[s].user_role = ADMIN
                 result == require_authorization(sess[s], role, TRUE).status
             IN result = IF sess[s].user_role = role \/ override
                         THEN APPROVED ELSE UNAUTHORIZED

\* C12: the stored status of an account changes only along pending_approval -> approved,
\* pending_approval -> rejected, rejected -> approved and approved -> rejected; no
\* action moves an approved or rejected account back to pending_approval.
C12_StatusEdges ==
    [][\A email \in Emails :
          (/\ users[email].doc
           /\ users'[email].doc
           /\ users[email].status \in {"pending_approval", "approved", "rejected"}
           /\ users'[email].status # users[email].status) =>
              <<users[email].status, users'[email].status>> \in
                 {<<"pending_approval", "approved">>, <<"pending_approval", "rejected">>,
                  <<"rejected", "approved">>, <<"approved", "rejected">>}]_vars

\* C13: every write that changes an account's status (approve, reject, reinstate,
\* status update) is made by a session of the Owner or of a user whose stored profile
\* role is Admin when the write happens, and stamps the actor's email and a time.
C13_StatusWritesByOwnerOrStoredAdmin ==
    [][\A s \in Sessions, target \in Emails, db \in DbOutcomes :
          LET actor == sess[s].user_email
              owner_or_admin ==
                 \/ actor = project_owner_email
                 \/ (actor \in DOMAIN users /\ users[actor].doc /\ users[actor].role = ADMIN)
          IN /\ AdminApprove(s, target, db) =>
                   (owner_or_admin /\ ApproveUpdateData(sess[s]).approved_by = actor)
             /\ AdminReject(s, target, db) =>
                   (owner_or_admin /\ RejectUpdateData(sess[s]).rejected_by = actor)
             /\ AdminReinstate(s, target, db) =>
                   (owner_or_admin /\ ApproveUpdateData(sess[s]).approved_by = actor)
             /\ \A new_status \in StatusValues, new_role \in UserRole :
                   AdminSave(s, target, new_status, new_role, db) =>
                      /\ owner_or_admin
                      /\ SaveUpdateData(sess[s], new_status, new_role,
                                        actor = project_owner_email).updated_by = actor]_vars

\* C14: the role field of a stored profile is written only by a Manage Users save of
\* an Owner session. A save by a non-owner Admin session writes no role and leaves the
\* stored role as it was; approve, reject and reinstate never touch the role.
C14_RoleWrittenOnlyByOwnerSession ==
    [][/\ \A email \in Emails :
             (/\ users[email].doc /\ users'[email].doc
              /\ users'[email].role # users[email].role) =>
                 /\ lastWrite'.kind = "save" /\ lastWrite'.target = email
                 /\ lastWrite'.role_written
                 /\ \E s \in Sessions : /\ sess[s].user_email = lastWrite'.by
                                        /\ is_current_user_owner(sess[s]) = OWNER
       /\ (users' # users \/ lastWrite' # lastWrite) =>
             /\ lastWrite'.role_written =>
                   (lastWrite'.kind = "save" /\ is_project_owner(lastWrite'.by))
             /\ (\/ lastWrite'.kind \in {"approve", "reject", "reinstate"}
                 \/ lastWrite'.kind = "save" /\ ~is_project_owner(lastWrite'.by)) =>
                   /\ ~lastWrite'.role_written
                   /\ users'[lastWrite'.target].role = users[lastWrite'.target].role]_vars

\* A non-owner Admin session has saved a status change and the target kept its role; an
\* Owner session can still change that role.
C14_Witness ==
    /\ lastWrite.kind = "save"
    /\ ~is_project_owner(lastWrite.by)
    /\ ~lastWrite.role_written
    /\ users[lastWrite.target].status = "rejected"
    /\ users[lastWrite.target].role = ADMIN
    /\ \E s \in Sessions : sess[s].user_email = lastWrite.by /\ sess[s].user_role = ADMIN

\* C15 (as stated): a successful registration creates exactly one profile, under the
\* new account's id, with status "pending_approval" and role Employee; every run of a
\* signed-in session of a user whose profile is pending resolves PENDING_APPROVAL and
\* shows no page; and a profile becomes approved only by a write of the Admin page.
C15_RegisteredUserPendingUntilApproved ==
    /\ [](\A s \in Sessions :
            LET email == sess[s].user_email IN
            (/\ verify_token_validity(sess[s])
             /\ email \in Emails
             /\ users[email].doc
             /\ users[email].status = "pending_approval") =>
                \A db \in DbOutcomes :
                   /\ require_authorization(sess[s], None, db.approval_read).status
                         = PENDING_APPROVAL
                   /\ RenderOutcome(sess[s], db).screen \in {"pending", "denied"})
    /\ [][/\ (lastRegister' # lastRegister /\ lastRegister'.ok) =>
                (~users[lastRegister'.email].doc /\ users'[lastRegister'.email].doc)
          /\ \A email \in Emails :
                (~users[email].doc /\ users'[email].doc) =>
                   /\ lastRegister'.ok /\ lastRegister'.email = email
                   /\ lastRegister'.doc_id = LocalId(email)
                   /\ email \notin credentials /\ email \in credentials'
                   /\ users'[email] = Profile("pending_approval", EMPLOYEE)
                   /\ \A other \in Emails \ {email} : users'[other] = users[other]
          /\ \A email \in Emails :
                (/\ users'[email].doc /\ users'[email].status = "approved"
                 /\ ~(users[email].doc /\ users[email].status = "approved")) =>
                    /\ lastWrite'.kind \in {"save", "approve", "reinstate"}
                    /\ lastWrite'.target = email
                    /\ \E s \in Sessions :
                          /\ sess[s].user_email = lastWrite'.by
                          /\ verify_token_validity(sess[s])
                          /\ CanOpenAdminPage(sess[s])]_vars

\* C15 (amended): the same, for every registrant whose email is not on the owner
\* allow-list.
C15_NonOwnerRegisteredPendingUntilApproved ==
    /\ [](\A s \in Sessions :
            LET email == sess[s].user_email IN
            (/\ verify_token_validity(sess[s])
             /\ email \in NonOwnerEmails
             /\ users[email].doc
             /\ users[email].status = "pending_approval") =>
                \A db \in DbOutcomes :
                   /\ require_authorization(sess[s], None, db.approval_read).status
                         = PENDING_APPROVAL
                   /\ RenderOutcome(sess[s], db).screen \in {"pending", "denied"})
    /\ [][/\ (lastRegister' # lastRegister /\ lastRegister'.ok) =>
                (~users[lastRegister'.email].doc /\ users'[lastRegister'.email].doc)
          /\ \A email \in Emails :
                (~users[email].doc /\ users'[email].doc) =>
                   /\ lastRegister'.ok /\ lastRegister'.email = email
                   /\ lastRegister'.doc_id = LocalId(email)
                   /\ email \notin credentials /\ email \in credentials'
                   /\ users'[email] = Profile("pending_approval", EMPLOYEE)
                   /\ \A other \in Emails \ {email} : users'[other] = users[other]
          /\ \A email \in NonOwnerEmails :
                (/\ users'[email].doc /\ users'[email].status = "approved"
                 /\ ~(users[email].doc /\ users[email].status = "approved")) =>
                    /\ lastWrite'.kind \in {"save", "approve", "reinstate"}
                    /\ lastWrite'.target = email
                    /\ \E s \in Sessions :
                          /\ sess[s].user_email = lastWrite'.by
                          /\ verify_token_validity(sess[s])
                          /\ CanOpenAdminPage(sess[s])]_vars

\* A non-owner has registered and signed in, and the run shows the pending screen.
C15_Witness ==
    /\ lastRegister.ran /\ lastRegister.ok
    /\ \E s \in Sessions :
          /\ verify_token_validity(sess[s])
          /\ sess[s].user_email \in NonOwnerEmails
          /\ sess[s].user_email = lastRegister.email
          /\ users[sess[s].user_email] = Profile("pending_approval", EMPLOYEE)
          /\ view[s].screen = "pending"

\* C16: where register created the account and the profile write failed, the account
\* is deleted again and register returns failure; and once register has run, every
\* account of the provider has a profile.
C16_NoOrphanedCredential ==
    lastRegister.ran =>
       /\ (lastRegister.created /\ ~lastRegister.ok) =>
              /\ lastRegister.returned
              /\ lastRegister.email \notin credentials
       /\ \A email \in credentials : users[email].doc

\* C17: a write of a medical record, an expense, a user status or the doctor registry
\* is performed only by the run of a session that resolves APPROVED when it runs: its
\* token is valid and its user is an owner or has the stored status "approved". No
\* step stores anything on behalf of a user whose stored status is rejected or pending,
\* or of a session without a valid token.
C17_NoWriteUnlessApproved ==
    [][LET Approved(email) ==
               \E s \in Sessions :
                  /\ sess[s].user_email = email
                  /\ verify_token_validity(sess[s])
                  /\ \/ is_project_owner(email)
                     \/ users[email].doc /\ users[email].status = "approved"
                  /\ \E db \in DbOutcomes :
                        require_authorization(sess[s], None, db.approval_read).status
                           = APPROVED
       IN /\ records' # records => Approved(records'[Len(records')].updated_by_email)
          /\ expenses' # expenses => Approved(expenses'[Len(expenses')].updated_by_email)
          /\ (users' # users \/ doctors' # doctors) =>
                (lastWrite'.stored = Len(records) + Len(expenses)
                 /\ Approved(lastWrite'.by))
          /\ lastWrite' # lastWrite => Approved(lastWrite'.by)]_vars

\* The owner has rejected a user who had stored a record; that user's session is still
\* open (s2), has run again and shows the rejected screen, and nothing more was stored.
C17_Witness ==
    /\ lastWrite.kind = "save" /\ lastWrite.by = project_owner_email
    /\ lastWrite.stored = 1
    /\ Len(records) + Len(expenses) = 1
    /\ verify_token_validity(sess["s2"])
    /\ users[sess["s2"].user_email].status = "rejected"
    /\ lastWrite.target = sess["s2"].user_email
    /\ view["s2"].screen = "rejected"
    /\ \/ Len(records) = 1 /\ records[1].updated_by_email = sess["s2"].user_email
       \/ Len(expenses) = 1 /\ expenses[1].updated_by_email = sess["s2"].user_email

RECURSIVE SumOfGroups(_, _)
SumOfGroups(referral_data, names) ==
    IF names = {} THEN 0
    ELSE LET n == CHOOSE x \in names : TRUE
         IN referral_data[n].total_commission + SumOfGroups(referral_data, names \ {n})

\* Number of records the report keeps: referral info present and total_commission > 0.
RECURSIVE KeptRecords(_, _)
KeptRecords(recs, i) ==
    IF i > Len(recs) THEN 0
    ELSE KeptRecords(recs, i + 1) +
         (IF recs[i].referral_info.present /\ TotalCommissionOf(recs[i].referral_info) > 0
          THEN 1 ELSE 0)

\* C19: the month's total commission (the sum of referral_info.total_commission over
\* the records that have referral info) equals the sum of total_commission over the
\* per-doctor groups of compute_referral_report; the report keeps exactly the records
\* with referral info and total_commission > 0, and counts one patient per kept record.
C19_ReportSumsToMonthlyCommission ==
    repOut.done =>
       LET referral_data == repOut.referral_data
           names == DOMAIN referral_data
           Patients[ns \in SUBSET names] ==
               IF ns = {} THEN 0
               ELSE LET n == CHOOSE x \in ns : TRUE
                    IN referral_data[n].patient_count + Patients[ns \ {n}]
       IN /\ SumOfGroups(referral_data, names) = repOut.total_commission
          /\ Patients[names] = KeptRecords(repIn.records, 1)
          /\ \A n \in names :
                /\ referral_data[n].patient_count = Len(referral_data[n].patients)
                /\ referral_data[n].total_commission > 0
          /\ names = {repIn.records[i].referral_info.doctor_name :
                         i \in {j \in 1..Len(repIn.records) :
                                  /\ repIn.records[j].referral_info.present
                                  /\ TotalCommissionOf(repIn.records[j].referral_info) > 0}}

\* A month of three records, two of them kept for one doctor and one skipped: the
\* report has one group of two patients.
C19_Witness ==
    /\ repOut.done
    /\ Len(repIn.records) = 3
    /\ DOMAIN repOut.referral_data = {"Dr A"}
    /\ repOut.referral_data["Dr A"].patient_count = 2
    /\ repOut.total_commission = 500

\* C21 (as stated): the submit button of the record form is enabled only when the
\* patient name has at least 2 characters after trimming, a test is selected, the phone
\* number (if included) has 10 digits or more, a registered doctor is selected if the
\* referral box is ticked, the total payment is > 0 or a free-test reason is chosen, and
\* no submission is in progress; and no stored record has total payment 0 without the
\* free-test reason noted.
C21_SubmitOnlyWhenValid ==
    /\ \A i \in 1..Len(records) :
          records[i].payment = 0 =>
             records[i].free_test_note \in {"Zaruratmand", "Friend/Family/Staff"}
    /\ lastSubmit.ran =>
          /\ Len(Strip(lastSubmit.input.patient_name)) >= 2
          /\ Len(lastSubmit.input.selected_tests) >= 1
          /\ lastSubmit.input.phone_available =>
                Cardinality({i \in 1..Len(lastSubmit.input.patient_phone) :
                               lastSubmit.input.patient_phone[i] \in Digits}) >= 10
          /\ lastSubmit.input.through_referral =>
                lastSubmit.input.selected_doctor \in lastSubmit.offered
          /\ \/ TotalPayment(lastSubmit.input.selected_tests,
                              lastSubmit.input.test_payments) > 0
             \/ lastSubmit.input.free_test_reason \in {"Zaruratmand", "Friend/Family/Staff"}
          /\ ~lastSubmit.processing_before

\* C21 (amended): the same, where a doctor has to be selected only if the referral box
\* is ticked and the doctor list the form reads is not empty.
C21_SubmitOnlyWhenValidOrNoDoctors ==
    /\ \A i \in 1..Len(records) :
          records[i].payment = 0 =>
             records[i].free_test_note \in {"Zaruratmand", "Friend/Family/Staff"}
    /\ lastSubmit.ran =>
          /\ Len(Strip(lastSubmit.input.patient_name)) >= 2
          /\ Len(lastSubmit.input.selected_tests) >= 1
          /\ lastSubmit.input.phone_available =>
                Cardinality({i \in 1..Len(lastSubmit.input.patient_phone) :
                               lastSubmit.input.patient_phone[i] \in Digits}) >= 10
          /\ (lastSubmit.input.through_referral /\ lastSubmit.offered # {}) =>
                lastSubmit.input.selected_doctor \in lastSubmit.offered
          /\ \/ TotalPayment(lastSubmit.input.selected_tests,
                              lastSubmit.input.test_payments) > 0
             \/ lastSubmit.input.free_test_reason \in {"Zaruratmand", "Friend/Family/Staff"}
          /\ ~lastSubmit.processing_before

\* A free test was submitted with its reason chosen and is stored with the reason noted.
C21_Witness ==
    /\ lastSubmit.ran /\ lastSubmit.saved
    /\ records # <<>>
    /\ records[Len(records)].payment = 0
    /\ records[Len(records)].free_test_note = "Zaruratmand"
    /\ form[FormSession].show_success

\* C22: an expense submission whose amount or description fails validation (amount
\* outside 0 < amount <= 1,000,000; description shorter than 3 characters when the type
\* is Other or when a description is given; description longer than 500 characters)
\* creates no expense document, does not set the success state and leaves the form
\* usable: the in-progress flag is off again and the validation errors are shown.
C22_InvalidExpensePersistsNothing ==
    [][LET Fails(input) ==
               \/ ~(0 < input.amount /\ input.amount <= 1000000)
               \/ (input.expense_type = ExpenseType_OTHER /\ input.description_len < 3)
               \/ (input.description_len > 0 /\ input.description_len < 3)
               \/ input.description_len > 500
       IN /\ expenses' # expenses =>
                /\ lastExpense'.ran
                /\ lastExpense'.stored_before = Len(expenses)
                /\ ~Fails(lastExpense'.input)
          /\ (lastExpense' # lastExpense /\ Fails(lastExpense'.input)) =>
                /\ expenses' = expenses
                /\ lastExpense'.error = "validation"
                /\ lastExpense'.attempts = 0
                /\ ~form'[lastExpense'.by].expense_show_success
                /\ ~form'[lastExpense'.by].expense_processing_submission]_vars

\* An expense with a description of 2 characters was submitted after one was stored:
\* validation refused it, the stored expense is as it was and the form shows no success.
C22_Witness ==
    /\ lastExpense.ran
    /\ lastExpense.input.expense_type = "Rent"
    /\ lastExpense.input.description_len = 2
    /\ lastExpense.error = "validation"
    /\ lastExpense.stored_before = 1
    /\ Len(expenses) = 1
    /\ ~form[lastExpense.by].expense_show_success

\* C23: saving an expense calls the store at most 3 times, makes no call after the
\* first that succeeds (so one document at most is created), and shows the save error
\* only after the third failure in a row; when all 3 fail the success state is not set.
C23_ExpenseWriteRetriedThreeTimes ==
    /\ [](lastExpense.ran /\ lastExpense.valid =>
            LET w == lastExpense.write_oks
                succeeded == {k \in 1..3 : w[k]}
            IN /\ lastExpense.attempts \in 1..3
               /\ \A k \in succeeded :
                     (\A j \in succeeded : k <= j) =>
                        /\ lastExpense.attempts = k
                        /\ lastExpense.error = None
                        /\ lastExpense.saved
               /\ lastExpense.error = "save_failed" <=> (~w[1] /\ ~w[2] /\ ~w[3])
               /\ lastExpense.error = "save_failed" =>
                     /\ lastExpense.attempts = 3
                     /\ ~lastExpense.saved
                     /\ ~form[lastExpense.by].expense_show_success)
    /\ [][/\ Len(expenses') <= Len(expenses) + 1
          /\ expenses' # expenses =>
                /\ lastExpense'.saved
                /\ form'[lastExpense'.by].expense_show_success]_vars

\* The first two calls failed and the third stored the expense.
C23_Witness ==
    /\ lastExpense.ran /\ lastExpense.valid
    /\ lastExpense.write_oks = <<FALSE, FALSE, TRUE>>
    /\ lastExpense.attempts = 3
    /\ lastExpense.saved
    /\ Len(expenses) = lastExpense.stored_before + 1
    /\ form[lastExpense.by].expense_show_success

\* C24: a medical-record write that fails is tried again, up to 3 attempts in all,
\* before the error is shown: where the first call of the store fails and the second
\* would succeed, the record is saved.
C24_RecordWriteRetried ==
    (/\ lastSubmit.ran
     /\ ~lastSubmit.raised
     /\ ~lastSubmit.write_oks[1]
     /\ lastSubmit.write_oks[2]) =>
        /\ lastSubmit.saved
        /\ records # <<>>

\* C25: the doctor list the record form reads is cached for five minutes. An entry
\* is stored only when none is fresh, and it is the registry as stored at that
\* moment; the rate table a submission computes with is the cached doctor's table,
\* stored less than five minutes before; and a submission made more than five
\* minutes after the last edit of its doctor's rates computes with the edited rates.
C25_RatesAtMostFiveMinutesOld ==
    [][/\ doctorCache' # doctorCache =>
            /\ ~CacheFresh
            /\ doctorCache' = [filled |-> TRUE, value |-> doctors, at |-> clock]
       /\ (lastSubmit' # lastSubmit /\ lastSubmit'.referred) =>
            /\ doctorCache'.filled
            /\ clock - doctorCache'.at < CACHE_TTL
            /\ lastSubmit'.commission_rates_data =
                  doctorCache'.value[lastSubmit'.doctor_id].commission_rates
            /\ (/\ lastWrite.kind = "save_rates"
                /\ lastWrite.target = lastSubmit'.doctor_id
                /\ clock > lastWrite.at + CACHE_TTL) =>
                    lastSubmit'.commission_rates_data =
                        doctors[lastSubmit'.doctor_id].commission_rates]_vars

\* A submission more than five minutes after an edit that changed its doctor's
\* rates, made while an entry cached before the edit had been kept.
C25_Witness ==
    /\ lastSubmit.ran
    /\ lastSubmit.referred
    /\ lastWrite.kind = "save_rates"
    /\ lastWrite.target = lastSubmit.doctor_id
    /\ lastWrite.at > 0
    /\ lastSubmit.at > lastWrite.at + CACHE_TTL
    /\ lastSubmit.commission_rates_data = EditedRates
    /\ lastSubmit.commission_rates_data # Registry[lastSubmit.doctor_id].commission_rates
    /\ doctorCache.filled
    /\ doctorCache.at = lastSubmit.at

C27_AmountValidIffInRange ==
    amtOut.done =>
        (amtOut.valid <=> (0 < amtIn.amount /\ amtIn.amount <= 1000000))

\* The largest amount accepted.
C27_Witness ==
    /\ amtOut.done
    /\ amtIn.amount = 1000000
    /\ amtOut.valid

\* C28: the referring-doctor choices of the record form hold active doctors only: a
\* doctor the Owner deactivated more than five minutes ago (so that no list cached
\* before can still be fresh), and who was not written since, is not among the choices.
C28_DeactivatedDoctorNotOffered ==
    \A d \in DOMAIN get_active_doctors :
        ~(/\ lastWrite.kind = "deactivate"
          /\ lastWrite.target = d
          /\ ~doctors[d].is_active
          /\ clock > lastWrite.at + CACHE_TTL)

\* C29: when a run of a submit handler has finished, of the record form or of the
\* expense form, saved or refused by validation or failed on the write, the form's
\* in-progress flag is false; an attempt that saved nothing leaves the form's flags,
\* the session and the stored documents as they were, so the form can be submitted again.
C29_AttemptLeavesFormUsable ==
    /\ [](\A s \in Sessions : /\ ~form[s].processing_submission
                               /\ ~form[s].expense_processing_submission)
    /\ [][/\ (lastSubmit' # lastSubmit /\ ~lastSubmit'.saved) =>
               /\ form' = form
               /\ sess' = sess
               /\ records' = records
          /\ (lastExpense' # lastExpense /\ ~lastExpense'.saved) =>
               /\ form' = form
               /\ sess' = sess
               /\ expenses' = expenses
          /\ \A s \in Sessions :
               /\ (~form[s].show_success /\ form'[s].show_success) =>
                     (lastSubmit'.ran /\ lastSubmit'.saved /\ records' # records)
               /\ (~form[s].expense_show_success /\ form'[s].expense_show_success) =>
                     (lastExpense'.ran /\ lastExpense'.saved /\ expenses' # expenses)]_vars

\* A record whose write failed and then an expense whose three writes failed, with
\* both forms open for the next attempt.
C29_Witness ==
    /\ lastSubmit.ran
    /\ ~lastSubmit.raised
    /\ ~lastSubmit.saved
    /\ lastExpense.ran
    /\ lastExpense.error = "save_failed"
    /\ ~lastExpense.saved
    /\ \A s \in Sessions : /\ ~form[s].processing_submission
                            /\ ~form[s].expense_processing_submission
                            /\ ~form[s].show_success
                            /\ ~form[s].expense_show_success

\* C30: the role a session holds is set at login (a run that starts without a valid
\* token and ends with one), from the stored profile (Employee when the read fails),
\* and changes otherwise only by the session being cleared; the
\* Admin page is gated on that session role. A write to a signed-in user's profile
\* leaves the role and the admin gating of that user's open session as they were,
\* while the status it stores decides the screen of that session's next run.
C30_RoleFixedAtLoginStatusReRead ==
    /\ [](\A s \in Sessions :
            AdminPageOpen(s, DbUp) <=>
               /\ RenderOutcome(sess[s], DbUp).screen = "page"
               /\ \/ is_project_owner(sess[s].user_email)
                  \/ sess[s].user_role = ADMIN)
    /\ [][\A s \in Sessions :
            /\ sess'[s].user_role # sess[s].user_role =>
                 \/ sess'[s] = ClearedSession
                 \/ /\ ~verify_token_validity(sess[s])
                    /\ verify_token_validity(sess[s])'
                    /\ sess'[s].user_role \in
                          {get_user_role(sess'[s].user_email, db_ok) : db_ok \in BOOLEAN}
            /\ \A e \in NonOwnerEmails :
                 (/\ users'[e] # users[e]
                  /\ sess[s].user_email = e
                  /\ verify_token_validity(sess[s])) =>
                     /\ sess'[s].user_role = sess[s].user_role
                     /\ CanOpenAdminPage(sess'[s]) <=> CanOpenAdminPage(sess[s])
                     /\ RenderOutcome(sess[s], DbUp)'.screen =
                           CASE users'[e].status = "approved" -> "page"
                             [] users'[e].status = "rejected" -> "rejected"
                             [] OTHER -> "pending"]_vars

\* The owner has changed the role of a signed-in Admin to Employee: the open session
\* still holds Admin and still opens the Admin page.
C30_Witness ==
    \E s \in Sessions :
       /\ sess[s].user_email \in NonOwnerEmails
       /\ verify_token_validity(sess[s])
       /\ lastWrite.kind = "save"
       /\ lastWrite.role_written
       /\ is_project_owner(lastWrite.by)
       /\ lastWrite.target = sess[s].user_email
       /\ users[sess[s].user_email].role = EMPLOYEE
       /\ sess[s].user_role = ADMIN
       /\ AdminPageOpen(s, DbUp)

====
